---- MODULE Spec2Model ----
(***************************************************************************)
(* bettergit: the action history (history.py), the commands of cli.py that *)
(* write it, and the undo engine that reads it (undo, _single_undo,        *)
(* _interactive_undo, _perform_undo, _targeted_undo), with the prompts of  *)
(* ui.py they go through.                                                  *)
(*                                                                         *)
(* Six specifications share the state:                                     *)
(*   SpecStore  the ActionHistory methods alone, driven up to and past the *)
(*              retention cap;                                             *)
(*   Spec       the `undo` command (single and interactive) over logs      *)
(*              written by the call sites of log_action;                   *)
(*   SpecDisk   the ActionHistory methods and `bit undo` when reading or   *)
(*              writing the history file can fail or the file is not JSON; *)
(*   SpecCmd    the logging commands (save, switch, push, pull, stash,     *)
(*              sync) and the targeted undo, with every git call and       *)
(*              prompt going either way;                                   *)
(*   SpecTarget `bit save` and the targeted undo on a log that may already *)
(*              hold records;                                              *)
(*   SpecRound  a log of any length up to the cap, then `bit switch`, then *)
(*              `bit undo` as the next command.                            *)
(***************************************************************************)
EXTENDS Integers, Sequences, FiniteSets, TLC

VARIABLES
    history,     \* the parsed content of history.json: a list of action dicts
    last,        \* what the most recent operation did (its inputs and effects)
    nAppended,   \* SpecStore: number of log_action calls made so far
    nRemoved,    \* SpecStore: number of remove_last_action / clear_history calls
    disk         \* "json" when history.json holds the JSON of `history`,
                 \* "unparsable" when what it holds is not valid JSON

vars == <<history, last, nAppended, nRemoved, disk>>

----------------------------------------------------------------------------
(* Bounds of the model. *)

MaxStoreAppends == 52   \* SpecStore: log_action calls per behaviour
MaxStoreRemovals == 1   \* SpecStore: removing calls per behaviour
MaxLog == 3             \* Spec: records in the log before `undo` runs
MaxCmdLog == 1          \* SpecCmd: a command runs on a log shorter than this
MaxDiskLog == 2         \* SpecDisk: log_action runs on a log shorter than this

(* history.py:85 "Keep only the last 50 actions". *)
HistoryCap == 50

(* cli.py:1019 get_history(20). *)
UndoWindow == 20

----------------------------------------------------------------------------
(* Python values. *)

\* None, as a record so that it compares with the dicts it stands in for.
None == [none |-> TRUE]

\* {}
EmptyDict == [k \in {} |-> TRUE]

\* d.get(k, default)
Get(d, k, default) == IF k \in DOMAIN d THEN d[k] ELSE default

\* x or {}  (None and the empty dict are falsy)
OrEmptyDict(x) == IF x = None \/ DOMAIN x = {} THEN EmptyDict ELSE x

Max(a, b) == IF a >= b THEN a ELSE b
Min(a, b) == IF a <= b THEN a ELSE b

\* s[start:] with Python's clamping of a negative or too large start.
SliceFrom(s, start) ==
    LET n == Len(s)
        lo == IF start < 0 THEN Max(n + start, 0) ELSE Min(start, n)
    IN  SubSeq(s, lo + 1, n)

\* s[:stop]
SliceTo(s, stop) ==
    LET n == Len(s)
        hi == IF stop < 0 THEN Max(n + stop, 0) ELSE Min(stop, n)
    IN  SubSeq(s, 1, hi)

\* reversed(s)
Reversed(s) == [i \in 1..Len(s) |-> s[Len(s) + 1 - i]]

----------------------------------------------------------------------------
(* history.py: ActionHistory.  The operators take and return the list that  *)
(* _load_history reads and _save_history writes.                           *)

\* the dict without `undo_details or {}`
NewActionRawUndoDetails(h, a) ==
    [id           |-> Len(h) + 1,
     action_type  |-> a.action_type,
     details      |-> a.details,
     undo_command |-> a.undo_command,
     undo_details |-> a.undo_details]

\* The dict log_action builds (the timestamp is write-once and is read only
\* to render a relative time, which the interactive undo takes as an input).
NewAction(h, a) ==
    [id           |-> Len(h) + 1,
     action_type  |-> a.action_type,
     details      |-> a.details,
     undo_command |-> a.undo_command,
     undo_details |-> OrEmptyDict(a.undo_details)]

\* the renumbering loop left out
KeepIds(h) == h

\* for i, action in enumerate(history): action["id"] = i + 1
Renumber(h) == [i \in 1..Len(h) |-> [h[i] EXCEPT !.id = i]]

\* the trim without the renumbering loop
TrimNoRenumber(h) ==
    IF Len(h) > HistoryCap THEN SliceFrom(h, -HistoryCap) ELSE h

\* if len(history) > 50: history = history[-50:]; renumber
Trim(h) ==
    IF Len(h) > HistoryCap THEN Renumber(SliceFrom(h, -HistoryCap)) ELSE h

\* log_action keeping the oldest 50 records
log_action_keep_oldest(h, a) == SliceTo(Append(h, NewAction(h, a)), HistoryCap)

log_action(h, a) == Trim(Append(h, NewAction(h, a)))

\* limit is <<>> for None and <<n>> for an integer; `if limit:` is false for 0.
get_history(h, limit) ==
    IF limit # <<>> /\ limit[1] # 0 THEN SliceFrom(h, -limit[1]) ELSE h

\* get_last_action returning a placeholder record for an empty log
get_last_action_placeholder(h) ==
    IF h # <<>> THEN h[Len(h)]
    ELSE [id |-> 0, action_type |-> "unknown", details |-> EmptyDict,
          undo_command |-> None, undo_details |-> EmptyDict]

\* history[-1] if history else None
get_last_action(h) == IF h # <<>> THEN h[Len(h)] ELSE None

\* history.pop(0): the oldest record is removed instead of the latest
remove_first_action(h) == IF h = <<>> THEN h ELSE Tail(h)

\* history.pop(); the list that is saved (unchanged when it was empty)
remove_last_action(h) == IF h = <<>> THEN h ELSE SubSeq(h, 1, Len(h) - 1)

clear_history(h) == <<>>

\* ActionHistory defines no remove_action (history.py:19-141): the call of
\* cli.py:1167 raises AttributeError and the file is not touched.
remove_action(h, id) == [history |-> h, raised |-> TRUE]

get_undoable_actions == {"save", "merge", "push", "pull", "stash", "switch"}

----------------------------------------------------------------------------
(* The arguments the call sites in cli.py give log_action. *)

GitCmd(ws) == [words |-> ws]

SaveArgs(m) ==
    [action_type  |-> "save",
     details      |-> [message |-> m, files |-> <<".">>],
     undo_command |-> GitCmd(<<"git", "reset", "--soft", "HEAD~1">>),
     undo_details |-> [commit_message |-> m, staged_files |-> <<".">>]]

----------------------------------------------------------------------------
(* SpecStore: the ActionHistory methods. *)

Done(op, pre) == [op |-> op, pre |-> pre]

\* No command is running.
Idle == Done("idle", <<>>)

StoreLogAction ==
    /\ nAppended < MaxStoreAppends
    /\ history' = log_action(history, SaveArgs(nAppended + 1))
    /\ nAppended' = nAppended + 1
    /\ last' = Done("log_action", history)
    /\ UNCHANGED <<nRemoved, disk>>

StoreRemoveLastAction ==
    /\ nRemoved < MaxStoreRemovals
    /\ history' = remove_last_action(history)
    /\ nRemoved' = nRemoved + 1
    /\ last' = Done("remove_last_action", history)
    /\ UNCHANGED <<nAppended, disk>>

StoreClearHistory ==
    /\ nRemoved < MaxStoreRemovals
    /\ history' = clear_history(history)
    /\ nRemoved' = nRemoved + 1
    /\ last' = Done("clear_history", history)
    /\ UNCHANGED <<nAppended, disk>>

\* history_manager.remove_action(id), as cli.py:1167 calls it.
StoreRemoveAction ==
    /\ history # <<>>
    /\ \E id \in {history[1].id, history[Len(history)].id} :
         history' = remove_action(history, id).history
    /\ last' = Done("remove_action", history)
    /\ UNCHANGED <<nAppended, nRemoved, disk>>

\* _ensure_history_exists wrote [] on first run.
Init ==
    /\ history = <<>>
    /\ last = Idle
    /\ nAppended = 0
    /\ nRemoved = 0
    /\ disk = "json"

NextStore ==
    \/ StoreLogAction
    \/ StoreRemoveLastAction
    \/ StoreClearHistory
    \/ StoreRemoveAction

SpecStore == Init /\ [][NextStore]_vars

----------------------------------------------------------------------------
(* The arguments the other call sites give log_action (a branch that is    *)
(* None is stored, and later rendered, as "None").                         *)

\* cli.py _switch_branch: switch(from -> to); no undo_command when the
\* current branch was None (detached HEAD).
SwitchArgs(from, to) ==
    [action_type  |-> "switch",
     details      |-> [from_branch |-> from, to_branch |-> to],
     undo_command |-> IF from # "None"
                      THEN GitCmd(<<"git", "switch", from>>) ELSE None,
     undo_details |-> None]

\* cli.py push
PushArgs(branch, force) ==
    [action_type  |-> "push",
     details      |-> [branch |-> branch, force |-> force],
     undo_command |-> IF force THEN GitCmd(<<"git", "push", "--force">>)
                      ELSE None,
     undo_details |-> IF force THEN [dangerous |-> TRUE] ELSE None]

\* cli.py _create_and_switch_branch
CreateBranchArgs(from, new) ==
    [action_type  |-> "create_branch",
     details      |-> [from_branch |-> from, new_branch |-> new],
     undo_command |-> GitCmd(<<"git", "switch", from, "&&",
                               "git", "branch", "-d", new>>),
     undo_details |-> None]

\* cli.py stash
StashArgs(m) ==
    [action_type  |-> "stash",
     details      |-> [message |-> m],
     undo_command |-> GitCmd(<<"git", "stash", "pop">>),
     undo_details |-> None]

\* What the commands of Spec log.
UndoLogArgs ==
    { SaveArgs(1),
      SwitchArgs("main", "feature"),
      SwitchArgs("None", "feature"),
      PushArgs("feature", FALSE),
      PushArgs("feature", TRUE),
      CreateBranchArgs("main", "feature"),
      StashArgs(1) }

----------------------------------------------------------------------------
(* ui.py: the prompts.  An answer says how the prompt library came back:   *)
(*   "answered"   the user answered (yes / text);                          *)
(*   "none"       inquirer.prompt returned no answers (it was cancelled);  *)
(*   "interrupt"  KeyboardInterrupt reached the wrapper;                   *)
(*   "error"      any other exception.                                     *)

Answer(how, yes, text) == [how |-> how, yes |-> yes, text |-> text]

ConfirmAnswers ==
    { Answer("answered", TRUE, ""), Answer("answered", FALSE, ""),
      Answer("none", FALSE, ""), Answer("interrupt", FALSE, ""),
      Answer("error", FALSE, "") }

TextAnswers ==
    { Answer("answered", FALSE, t) : t \in {"feature", "main", ""} }
    \cup { Answer("none", FALSE, ""), Answer("interrupt", FALSE, ""),
           Answer("error", FALSE, "") }

Cancelled(ans) == ans.how \in {"none", "interrupt"}

\* ui.confirm
confirm(default, ans) ==
    CASE ans.how = "answered"  -> ans.yes
      [] ans.how = "none"      -> default
      [] ans.how = "interrupt" -> FALSE
      [] OTHER                 -> default

\* ui.prompt_text
prompt_text(default, ans) ==
    IF ans.how = "answered" THEN ans.text ELSE default

\* require_confirmation accepting any text that was typed
require_confirmation_any_text(target, danger_level, ans) ==
    CASE danger_level = "extreme" ->
            IF target # "" THEN prompt_text("", ans) # ""
                           ELSE confirm(FALSE, ans)
      [] danger_level = "high"   -> confirm(FALSE, ans)
      [] danger_level = "medium" -> confirm(TRUE, ans)
      [] OTHER                   -> TRUE

\* ui.require_confirmation
require_confirmation(target, danger_level, ans) ==
    CASE danger_level = "extreme" ->
            IF target # "" THEN prompt_text("", ans) = target
                           ELSE confirm(FALSE, ans)
      [] danger_level = "high"   -> confirm(FALSE, ans)
      [] danger_level = "medium" -> confirm(TRUE, ans)
      [] OTHER                   -> TRUE

----------------------------------------------------------------------------
(* cli.py: _perform_undo.  One call is a step: the prompt it showed, the   *)
(* git command it ran (<<>> when none) and how it ended:                   *)
(*   "undone"     the reversal command ran and succeeded;                  *)
(*   "git_error"  run_git_command raised GitError (the step raised);       *)
(*   "declined"   the extreme confirmation was not passed (plain return);  *)
(*   "dont_know"  the warning branch (plain return);                       *)
(*   "nothing"    a switch whose undo_command names no `git switch`.       *)

Step(action, prompt, ans, passed, cmd, outcome) ==
    [id        |-> action.id,
     prompt    |-> prompt,
     cancelled |-> prompt # "none" /\ Cancelled(ans),
     typed     |-> IF prompt = "none" THEN "" ELSE prompt_text("", ans),
     passed    |-> passed,
     cmd       |-> cmd,
     outcome   |-> outcome,
     raised    |-> outcome = "git_error"]

\* run_git_command(cmd) inside _perform_undo, then the success message
RunGit(action, prompt, ans, passed, cmd, gitOk) ==
    Step(action, prompt, ans, passed, cmd,
         IF gitOk THEN "undone" ELSE "git_error")

\* `x` is truthy, for an undo_command
Truthy(uc) == uc # None /\ uc.words # <<>>

\* 'git switch' in undo_command
HasGitSwitch(uc) ==
    \E i \in 1..(Len(uc.words) - 1) :
        uc.words[i] = "git" /\ uc.words[i + 1] = "switch"

\* undo_command.split()[0]
FirstWord(uc) == uc.words[1]

\* undo_command.split()[-1]
LastWord(uc) == uc.words[Len(uc.words)]

\* The `push` branch of _perform_undo, cli.py:1212-1218.
undo_push(action, ans, gitOk) ==
    LET details      == action.details
        undo_details == Get(action, "undo_details", EmptyDict)
    IN  IF Get(undo_details, "dangerous", FALSE)
        THEN IF require_confirmation(Get(details, "branch", ""),
                                     "extreme", ans)
             THEN RunGit(action, "extreme", ans, TRUE,
                         <<"push", "--force">>, gitOk)
             ELSE Step(action, "extreme", ans, FALSE, <<>>, "declined")
        ELSE RunGit(action, "none", ans, FALSE,
                    <<"push", "--force">>, gitOk)

perform_undo(action, ans, gitOk) ==
    LET action_type  == action.action_type
        undo_command == Get(action, "undo_command", None)
    IN  CASE action_type = "save" ->
                RunGit(action, "none", ans, FALSE,
                       <<"reset", "--soft", "HEAD~1">>, gitOk)
          [] action_type = "merge" ->
                RunGit(action, "none", ans, FALSE,
                       <<"reset", "--hard", "ORIG_HEAD">>, gitOk)
          [] action_type = "push" ->
                undo_push(action, ans, gitOk)
          [] action_type = "pull" ->
                RunGit(action, "none", ans, FALSE,
                       <<"reset", "--hard", "HEAD@{1}">>, gitOk)
          [] action_type = "stash" ->
                RunGit(action, "none", ans, FALSE,
                       <<"stash", "pop">>, gitOk)
          [] action_type = "switch" /\ Truthy(undo_command) ->
                IF HasGitSwitch(undo_command)
                THEN RunGit(action, "none", ans, FALSE,
                            <<"switch", LastWord(undo_command)>>, gitOk)
                ELSE Step(action, "none", ans, FALSE, <<>>, "nothing")
          [] OTHER ->
                Step(action, "none", ans, FALSE, <<>>, "dont_know")

\* Every way one _perform_undo call on `action` can go.
StepOutcomes(action) ==
    { perform_undo(action, ans, gitOk) :
          ans \in TextAnswers, gitOk \in BOOLEAN }

\* The git commands a sequence of steps ran, in order.
RECURSIVE Commands(_)
Commands(steps) ==
    IF steps = <<>> THEN <<>>
    ELSE (IF Head(steps).cmd = <<>> THEN <<>> ELSE <<Head(steps).cmd>>)
         \o Commands(Tail(steps))

----------------------------------------------------------------------------
(* cli.py: _single_undo, under undo()'s `except (GitError, HistoryError)`. *)

UndoResult(op, pre, conf, steps, msg) ==
    [op        |-> op,
     pre       |-> pre,
     confirm   |-> conf,        \* <<>> when no confirmation was shown
     steps     |-> steps,
     msg       |-> msg]

Asked(ans, result) == <<[cancelled |-> Cancelled(ans), result |-> result]>>

\* _single_undo without the exception skipping the removal
single_undo_history_always_removes(h, step) == remove_last_action(h)

\* The log _single_undo leaves after _perform_undo made `step`.
single_undo_history(h, step) ==
    IF step.raised THEN h ELSE remove_last_action(h)

SingleUndo ==
    LET last_action == get_last_action(history) IN
    \/ /\ last.op = "idle"
       /\ last_action = None
       /\ last' = UndoResult("single_undo", history, <<>>, <<>>,
                             "No actions to undo.")
       /\ UNCHANGED <<history, nAppended, nRemoved, disk>>
    \/ /\ last.op = "idle"
       /\ last_action # None
       /\ \E conf \in ConfirmAnswers :
            IF ~confirm(TRUE, conf)
            THEN /\ last' = UndoResult("single_undo", history,
                                       Asked(conf, FALSE), <<>>, "")
                 /\ UNCHANGED <<history, nAppended, nRemoved, disk>>
            ELSE \E step \in StepOutcomes(last_action) :
                 /\ history' = single_undo_history(history, step)
                 /\ last' = UndoResult("single_undo", history,
                                       Asked(conf, TRUE), <<step>>,
                                       IF step.raised
                                       THEN "Failed to undo" ELSE "")
                 /\ UNCHANGED <<nAppended, nRemoved, disk>>

----------------------------------------------------------------------------
(* cli.py: _interactive_undo. *)

\* The literal list of cli.py:1032.
KnownUndoable == {"save", "merge", "push", "pull", "stash", "switch"}

\* The filter of cli.py:1026-1035, over reversed(actions): most recent first.
UndoableActions(actions) ==
    SelectSeq(Reversed(actions),
              LAMBDA action :
                  \/ Get(action, "undo_command", None) # None
                  \/ action.action_type \in KnownUndoable)

\* The relative times a menu can show, most recent first ("just now",
\* "Nm ago", "Nh ago", ...): what matters is which entries show the same one.
TimeStrs == <<"just now", "5m ago", "2h ago">>

\* The time strings of n entries listed most recent first: an older entry
\* never shows a more recent time.
TimePatterns(n) ==
    { f \in [1..n -> 1..Len(TimeStrs)] :
          \A i \in 1..n, j \in 1..n : i <= j => f[i] <= f[j] }

\* The `details` part of a menu line, cli.py:1072-1097.
DetailsText(action) ==
    LET action_type  == action.action_type
        details_dict == Get(action, "details", EmptyDict)
    IN  CASE action_type = "save" ->
                <<Get(details_dict, "message", "")>>
          [] action_type = "switch" ->
                IF Get(details_dict, "to_commit", "") # ""
                THEN <<Get(details_dict, "from_branch", ""), "->",
                       Get(details_dict, "to_commit", "")>>
                ELSE <<Get(details_dict, "from_branch", ""), "->",
                       Get(details_dict, "to_branch", "")>>
          [] action_type = "push" ->
                <<"to", Get(details_dict, "branch", ""),
                  Get(details_dict, "force", FALSE)>>
          [] action_type = "pull" ->
                <<"from", Get(details_dict, "branch", ""),
                  Get(details_dict, "rebase", FALSE)>>
          [] action_type = "stash" ->
                <<Get(details_dict, "message", "")>>
          [] OTHER -> <<details_dict>>

\* choice_text = f"{action_type.upper()}: {details} ({time_str})"
ChoiceText(action, time_str) ==
    <<action.action_type, DetailsText(action), time_str>>

\* next(i for i, (_, text) in enumerate(choices) if text == selected_action),
\* as a position counted from 1
SelectedIndex(choices, selected_action) ==
    CHOOSE i \in 1..Len(choices) :
        /\ choices[i] = selected_action
        /\ \A j \in 1..(i - 1) : choices[j] # selected_action

\* for action in actions_to_undo[:successful_undos]: remove_action(id)
RECURSIVE RemoveUndone(_, _)
RemoveUndone(h, ids) ==
    IF ids = <<>> THEN [history |-> h, raised |-> FALSE]
    ELSE LET r == remove_action(h, Head(ids))
         IN  IF r.raised THEN r ELSE RemoveUndone(r.history, Tail(ids))

\* the loop without its `break`
RECURSIVE UndoLoopNoBreak(_)
UndoLoopNoBreak(batch) ==
    IF batch = <<>> THEN {<<>>}
    ELSE UNION { { <<step>> \o rest : rest \in UndoLoopNoBreak(Tail(batch)) } :
                 step \in StepOutcomes(Head(batch)) }

\* The loop of cli.py:1156-1162: every sequence of steps it can make over
\* `batch`; it breaks at the first step that raises.
RECURSIVE UndoLoop(_)
UndoLoop(batch) ==
    IF batch = <<>> THEN {<<>>}
    ELSE UNION { IF step.raised
                 THEN {<<step>>}
                 ELSE { <<step>> \o rest : rest \in UndoLoop(Tail(batch)) } :
                 step \in StepOutcomes(Head(batch)) }

\* successful_undos: the steps that returned without raising
SuccessfulUndos(steps) == Len(SelectSeq(steps, LAMBDA step : ~step.raised))

Ids(actions) == [i \in 1..Len(actions) |-> actions[i].id]

InteractiveResult(pre, picked, batch, conf, steps, removal, msg) ==
    [op         |-> "interactive_undo",
     pre        |-> pre,
     confirm    |-> conf,
     steps      |-> steps,
     msg        |-> msg,
     picked     |-> picked,      \* the menu entry chosen, 0 when none
     batch      |-> batch,       \* ids of actions_to_undo
     successful |-> SuccessfulUndos(steps),
     removal    |-> removal]     \* ids remove_action was called with

\* What the user can pick: <<picked, selected_index>> for every menu entry
\* and every way the entries' times can read.
Selections(undoable) ==
    { <<picked,
        SelectedIndex([i \in 1..Len(undoable) |->
                          ChoiceText(undoable[i], TimeStrs[times[i]])],
                      ChoiceText(undoable[picked], TimeStrs[times[picked]]))>> :
          times \in TimePatterns(Len(undoable)),
          picked \in 1..Len(undoable) }

InteractiveUndo ==
    /\ last.op = "idle"
    /\ LET actions  == get_history(history, <<UndoWindow>>)
           undoable == UndoableActions(actions)
       IN
       IF actions = <<>>
       THEN /\ last' = InteractiveResult(history, 0, <<>>, <<>>, <<>>, <<>>,
                                         "No actions to undo.")
            /\ UNCHANGED <<history, nAppended, nRemoved, disk>>
       ELSE IF undoable = <<>>
       THEN /\ last' = InteractiveResult(history, 0, <<>>, <<>>, <<>>, <<>>,
                                         "No undoable actions found.")
            /\ UNCHANGED <<history, nAppended, nRemoved, disk>>
       ELSE
       \/ /\ last' = InteractiveResult(history, 0, <<>>, <<>>, <<>>, <<>>,
                                       "Undo cancelled.")
          /\ UNCHANGED <<history, nAppended, nRemoved, disk>>
       \/ \E sel \in Selections(undoable) :
            LET picked          == sel[1]
                selected_index  == sel[2]
                actions_to_undo == SliceTo(undoable, selected_index)
                runs            == UndoLoop(actions_to_undo)
            IN  \E conf \in ConfirmAnswers :
                IF ~confirm(TRUE, conf)
                THEN /\ last' = InteractiveResult(history, picked,
                                    Ids(actions_to_undo), Asked(conf, FALSE),
                                    <<>>, <<>>, "Undo cancelled.")
                     /\ UNCHANGED <<history, nAppended, nRemoved, disk>>
                ELSE \E steps \in runs :
                     LET undone  == SliceTo(Ids(actions_to_undo),
                                            SuccessfulUndos(steps))
                         removed == RemoveUndone(history, undone)
                     IN  /\ history' = removed.history
                         /\ last' = InteractiveResult(history, picked,
                                        Ids(actions_to_undo),
                                        Asked(conf, TRUE), steps,
                                        IF removed.raised
                                        THEN <<Head(undone)>> ELSE undone,
                                        IF removed.raised
                                        THEN "Interactive undo failed"
                                        ELSE "")
                         /\ UNCHANGED <<nAppended, nRemoved, disk>>

\* A state-changing command of cli.py succeeded and logs its action.
LogAction ==
    /\ last.op = "idle"
    /\ Len(history) < MaxLog
    /\ \E a \in UndoLogArgs :
         /\ history' = log_action(history, a)
         /\ last' = Done("log_action", history)
    /\ UNCHANGED <<nAppended, nRemoved, disk>>

\* The command has exited; the shell takes the next one.
Return ==
    /\ last.op # "idle"
    /\ last' = Idle
    /\ UNCHANGED <<history, nAppended, nRemoved, disk>>

Next ==
    \/ LogAction
    \/ SingleUndo
    \/ InteractiveUndo
    \/ Return

Spec == Init /\ [][Next]_vars

----------------------------------------------------------------------------
(* SpecDisk: the ActionHistory methods when reading or writing the file    *)
(* can fail.  `history` is what json.load gives for the file when `disk`   *)
(* is "json"; a file that a failed write left empty or cut short is not    *)
(* valid JSON (`disk` is "unparsable") and _load_history answers [] for it *)
(* (history.py:44-46).                                                     *)

\* How one read of the file can go: "read_failed" is any exception of open
\* or read other than JSONDecodeError.
LoadFaults == {"ok", "read_failed"}

\* How one write of the file can go: "open_failed" is open(..., 'w') raising
\* before it truncates; "write_failed" is json.dump or the closing flush
\* raising after open truncated the file.
SaveFaults == {"ok", "open_failed", "write_failed"}

(* JSON.  A document is a tree of tagged nodes; json.dump picks the tag    *)
(* from the Python type of the value, which for the records of the log is  *)
(* fixed by the key it is stored under.                                    *)
JNull == [j |-> "null"]
JLeaf(kind, v) == [j |-> kind, v |-> v]

\* The JSON type of the value each key of `details` / `undo_details` holds.
KeyKind(k) ==
    CASE k \in {"force", "dangerous"}    -> "boolean"
      [] k \in {"files", "staged_files"} -> "array"
      [] OTHER                           -> "string"

\* json.dump of an Optional[str]
dump_optional_str(x) == IF x = None THEN JNull ELSE JLeaf("string", x)

\* json.dump of an Optional[dict]
dump_optional_dict(d) ==
    IF d = None THEN JNull
    ELSE [j |-> "object", v |-> [k \in DOMAIN d |-> JLeaf(KeyKind(k), d[k])]]

\* json.dump of one record of the log
dump_action(action) ==
    [j |-> "object",
     v |-> [id           |-> JLeaf("number", action.id),
            action_type  |-> JLeaf("string", action.action_type),
            details      |-> dump_optional_dict(action.details),
            undo_command |-> dump_optional_str(action.undo_command),
            undo_details |-> dump_optional_dict(action.undo_details)]]

\* json.dump(history, f, indent=2)
json_dump(h) == [j |-> "array", v |-> [i \in 1..Len(h) |-> dump_action(h[i])]]

\* json.load of a null, a leaf or an object of leaves
load_node(n) ==
    CASE n.j = "null"   -> None
      [] n.j = "object" -> [k \in DOMAIN n.v |-> n.v[k].v]
      [] OTHER          -> n.v

\* json.load(f) of a document json_dump wrote
json_load(doc) ==
    [i \in 1..Len(doc.v) |-> [k \in DOMAIN doc.v[i].v |-> load_node(doc.v[i].v[k])]]

\* _load_history on a file whose state is `d`: a JSONDecodeError is answered
\* with a warning and [], any other exception becomes HistoryError.
load_history_rejects_bad_json(h, d, lf) ==
    IF lf = "read_failed" \/ d = "unparsable"
    THEN [raised |-> TRUE,  warned |-> FALSE, value |-> <<>>]
    ELSE [raised |-> FALSE, warned |-> FALSE, value |-> h]

load_history(h, d, lf) ==
    CASE lf = "read_failed" ->
            [raised |-> TRUE,  warned |-> FALSE, value |-> <<>>]
      [] d = "unparsable" ->
            [raised |-> FALSE, warned |-> TRUE,  value |-> <<>>]
      [] OTHER ->
            [raised |-> FALSE, warned |-> FALSE, value |-> h]

\* _save_history: the file afterwards (as it reads back), whether
\* HistoryError was raised, and whether the file was left cut short.
save_history(old, new, sf) ==
    CASE sf = "ok"          -> [file |-> json_load(json_dump(new)),
                                raised |-> FALSE, torn |-> FALSE]
      [] sf = "open_failed" -> [file |-> old,  raised |-> TRUE,  torn |-> FALSE]
      [] OTHER              -> [file |-> <<>>, raised |-> TRUE,  torn |-> TRUE]

StoreResult(file, intended, raised, error_logged, saved, torn, value) ==
    [file         |-> file,          \* the file afterwards, as it reads back
     intended     |-> intended,      \* the list the method meant to write
     raised       |-> raised,        \* an exception reached the caller
     error_logged |-> error_logged,  \* logger.error / logger.warning was called
     saved        |-> saved,         \* _save_history was called
     torn         |-> torn,
     value        |-> value]         \* the return value

\* The state of the file after a method that returned `r`.
DiskAfter(d, r, sf) ==
    CASE r.torn                -> "unparsable"
      [] r.saved /\ sf = "ok" -> "json"
      [] OTHER                 -> d

\* log_action with its `except Exception` removed
log_action_io_reraises(h, d, a, lf, sf) ==
    LET l == load_history(h, d, lf) IN
    IF l.raised
    THEN StoreResult(h, h, TRUE, FALSE, FALSE, FALSE, None)
    ELSE LET new == Trim(Append(l.value, NewAction(l.value, a)))
             s   == save_history(h, new, sf)
         IN  StoreResult(s.file, new, s.raised, FALSE, TRUE, s.torn, None)

\* log_action, history.py:70-96
log_action_io(h, d, a, lf, sf) ==
    LET l == load_history(h, d, lf) IN
    IF l.raised
    THEN StoreResult(h, h, FALSE, TRUE, FALSE, FALSE, None)
    ELSE LET new == Trim(Append(l.value, NewAction(l.value, a)))
             s   == save_history(h, new, sf)
         IN  StoreResult(s.file, new, FALSE, s.raised \/ l.warned, TRUE,
                         s.torn, None)

\* remove_last_action, history.py:112-122
remove_last_action_io(h, d, lf, sf) ==
    LET l == load_history(h, d, lf) IN
    IF l.raised
    THEN StoreResult(h, h, TRUE, FALSE, FALSE, FALSE, None)
    ELSE IF l.value = <<>>
    THEN StoreResult(h, h, FALSE, l.warned, FALSE, FALSE, None)
    ELSE LET new == SubSeq(l.value, 1, Len(l.value) - 1)
             s   == save_history(h, new, sf)
         IN  StoreResult(s.file, new, s.raised, FALSE, TRUE, s.torn,
                         IF s.raised THEN None ELSE l.value[Len(l.value)])

\* clear_history, history.py:126-130
clear_history_io(h, sf) ==
    LET s == save_history(h, <<>>, sf)
    IN  StoreResult(s.file, <<>>, s.raised, ~s.raised, TRUE, s.torn, None)

\* get_history, history.py:98-103
get_history_io(h, d, limit, lf) ==
    LET l == load_history(h, d, lf) IN
    IF l.raised
    THEN StoreResult(h, h, TRUE, FALSE, FALSE, FALSE, <<>>)
    ELSE StoreResult(h, h, FALSE, l.warned, FALSE, FALSE,
                     get_history(l.value, limit))

\* get_last_action, history.py:105-108
get_last_action_io(h, d, lf) ==
    LET l == load_history(h, d, lf) IN
    IF l.raised
    THEN StoreResult(h, h, TRUE, FALSE, FALSE, FALSE, None)
    ELSE StoreResult(h, h, FALSE, l.warned, FALSE, FALSE,
                     get_last_action(l.value))

DiskDone(op, pre, input, lf, sf, r, outcome) ==
    [op      |-> op,
     pre     |-> pre,
     was     |-> disk,        \* the state of the file before the call
     input   |-> input,       \* the argument of the call, <<>> without one
     load    |-> lf,
     save    |-> sf,
     result  |-> r,
     outcome |-> outcome,     \* how the command that made the call ended
     confirm |-> <<>>,
     steps   |-> <<>>]

\* The tail of a command of cli.py whose git operation succeeded (push,
\* cli.py:912-921): the success message, then log_action.  An exception
\* leaving log_action would not be caught by `except GitError`.
DiskLogAction ==
    /\ last.op = "idle"
    /\ Len(history) < MaxDiskLog
    /\ \E a \in UndoLogArgs, lf \in LoadFaults, sf \in SaveFaults :
         LET r == log_action_io(history, disk, a, lf, sf)
         IN  /\ history' = r.file
             /\ disk' = DiskAfter(disk, r, sf)
             /\ last' = DiskDone("log_action", history, a, lf, sf, r,
                                 IF r.raised THEN "crashed" ELSE "success")
    /\ UNCHANGED <<nAppended, nRemoved>>

DiskRemoveLastAction ==
    /\ last.op = "idle"
    /\ \E lf \in LoadFaults, sf \in SaveFaults :
         LET r == remove_last_action_io(history, disk, lf, sf)
         IN  /\ history' = r.file
             /\ disk' = DiskAfter(disk, r, sf)
             /\ last' = DiskDone("remove_last_action", history, <<>>, lf, sf,
                                 r, IF r.raised THEN "raised" ELSE "returned")
    /\ UNCHANGED <<nAppended, nRemoved>>

DiskClearHistory ==
    /\ last.op = "idle"
    /\ \E sf \in SaveFaults :
         LET r == clear_history_io(history, sf)
         IN  /\ history' = r.file
             /\ disk' = DiskAfter(disk, r, sf)
             /\ last' = DiskDone("clear_history", history, <<>>, "ok", sf, r,
                                 IF r.raised THEN "raised" ELSE "returned")
    /\ UNCHANGED <<nAppended, nRemoved>>

\* The limits get_history is called with: none, `bit list history -n N`
\* (cli.py:641) and the undo menu's window (cli.py:1019).
Limits == {<<>>, <<0>>, <<1>>, <<2>>, <<UndoWindow>>}

\* _list_history's call, cli.py:641
DiskGetHistory ==
    /\ last.op = "idle"
    /\ \E limit \in Limits, lf \in LoadFaults :
         LET r == get_history_io(history, disk, limit, lf)
         IN  last' = DiskDone("get_history", history, limit, lf, "ok", r,
                              IF r.raised THEN "raised" ELSE "returned")
    /\ UNCHANGED <<history, nAppended, nRemoved, disk>>

\* get_last_action on its own
DiskGetLastAction ==
    /\ last.op = "idle"
    /\ \E lf \in LoadFaults :
         LET r == get_last_action_io(history, disk, lf)
         IN  last' = DiskDone("get_last_action", history, <<>>, lf, "ok", r,
                              IF r.raised THEN "raised" ELSE "returned")
    /\ UNCHANGED <<history, nAppended, nRemoved, disk>>

\* `bit undo`: _single_undo under undo()'s except (GitError, HistoryError),
\* cli.py:1004-1012 and 1178-1193.
DiskSingleUndo ==
    /\ last.op = "idle"
    /\ \E lf \in LoadFaults :
         LET g == get_last_action_io(history, disk, lf)
             Quiet(conf, steps, msg) ==
                 /\ last' = [DiskDone("single_undo", history, <<>>, lf, "ok",
                                      g, msg)
                               EXCEPT !.confirm = conf, !.steps = steps]
                 /\ UNCHANGED <<history, disk>>
         IN  IF g.raised THEN Quiet(<<>>, <<>>, "Failed to undo")
             ELSE IF g.value = None THEN Quiet(<<>>, <<>>, "No actions to undo.")
             ELSE \E conf \in ConfirmAnswers :
                  IF ~confirm(TRUE, conf) THEN Quiet(Asked(conf, FALSE), <<>>, "")
                  ELSE \E step \in StepOutcomes(g.value) :
                       IF step.raised
                       THEN Quiet(Asked(conf, TRUE), <<step>>, "Failed to undo")
                       ELSE \E lf2 \in LoadFaults, sf \in SaveFaults :
                            LET r == remove_last_action_io(history, disk, lf2, sf)
                            IN  /\ history' = r.file
                                /\ disk' = DiskAfter(disk, r, sf)
                                /\ last' = [DiskDone("single_undo", history,
                                                     <<>>, lf2, sf, r,
                                                     IF r.raised
                                                     THEN "Failed to undo"
                                                     ELSE "")
                                              EXCEPT !.confirm = Asked(conf, TRUE),
                                                     !.steps = <<step>>]
    /\ UNCHANGED <<nAppended, nRemoved>>

NextDisk ==
    \/ DiskLogAction
    \/ DiskRemoveLastAction
    \/ DiskClearHistory
    \/ DiskGetHistory
    \/ DiskGetLastAction
    \/ DiskSingleUndo
    \/ Return

SpecDisk == Init /\ [][NextDisk]_vars

----------------------------------------------------------------------------
(* The repository the commands run in, and the names they are given.  A    *)
(* name is a string; Chars gives its characters where the code looks at    *)
(* them (len, the hex test, startswith).                                   *)

Chars(name) ==
    CASE name = "main"         -> <<"m", "a", "i", "n">>
      [] name = "feature"      -> <<"f", "e", "a", "t", "u", "r", "e">>
      [] name = "work"         -> <<"w", "o", "r", "k">>
      [] name = "abc"          -> <<"a", "b", "c">>
      [] name = "beef"         -> <<"b", "e", "e", "f">>
      [] name = "BEEF"         -> <<"B", "E", "E", "F">>
      [] name = "a1b2c3d4"     -> <<"a", "1", "b", "2", "c", "3", "d", "4">>
      [] name = "a1b2c3d4e5f6" -> <<"a", "1", "b", "2", "c", "3", "d", "4",
                                    "e", "5", "f", "6">>
      [] name = "beefca7"      -> <<"b", "e", "e", "f", "c", "a", "7">>
      [] name = "beefca7e5f60" -> <<"b", "e", "e", "f", "c", "a", "7", "e",
                                    "5", "f", "6", "0">>
      [] OTHER                 -> <<>>

\* c.lower() for one character
LowerChar(c) ==
    CASE c = "A" -> "a" [] c = "B" -> "b" [] c = "C" -> "c"
      [] c = "D" -> "d" [] c = "E" -> "e" [] c = "F" -> "f"
      [] OTHER -> c

\* s.lower()
Lower(cs) == [i \in 1..Len(cs) |-> LowerChar(cs[i])]

\* the literal '0123456789abcdef'
HexDigits ==
    {"0", "1", "2", "3", "4", "5", "6", "7", "8", "9",
     "a", "b", "c", "d", "e", "f"}

\* the hex test without the length test
LooksLikeCommitAnyLength(target) ==
    \A i \in 1..Len(Chars(target)) : Lower(Chars(target))[i] \in HexDigits

\* len(target) >= 4 and all(c in '0123456789abcdef' for c in target.lower())
LooksLikeCommit(target) ==
    /\ Len(Chars(target)) >= 4
    /\ \A i \in 1..Len(Chars(target)) : Lower(Chars(target))[i] \in HexDigits

\* a.startswith(b), on characters
StartsWith(a, b) == Len(b) <= Len(a) /\ SubSeq(a, 1, Len(b)) = b

\* What the user can name on the command line.
Targets == {"main", "feature", "work", "abc", "beef", "BEEF", "a1b2c3d4"}

\* config_manager.get_accounts(): the configured aliases
AccountSets == { {"work"}, {"work", "beef"} }

\* A repository: what `git branch --show-current` prints (nothing when HEAD
\* is detached), the local branches, the branches of origin, HEAD's full and
\* short hash.
Repo(current, local, remote, head_hash, head_short) ==
    [current    |-> current,
     local      |-> local,
     remote     |-> remote,
     head_hash  |-> head_hash,
     head_short |-> head_short]

Repos ==
    { Repo("main", {"main", "feature", "beef"}, {"main", "feature"},
           "a1b2c3d4e5f6", "a1b2c3d4"),
      Repo("feature", {"main", "feature"}, {"main", "beef", "abc"},
           "beefca7e5f60", "beefca7"),
      Repo("beef", {"main", "beef", "abc"}, {"beef"},
           "a1b2c3d4e5f6", "a1b2c3d4"),
      Repo("", {"main", "BEEF"}, {},
           "beefca7e5f60", "beefca7") }

\* One line of `git branch` output: the two marker columns, the
\* remote-tracking prefix when there is one, and the rest of the line.
Line(marker, prefix, name) == <<marker, prefix, name>>

\* `git branch`: "* " marks the branch checked out (or the detached HEAD).
BranchLocalLines(repo) ==
    { Line(IF b = repo.current THEN "* " ELSE "  ", "", b) : b \in repo.local }
    \cup (IF repo.current = ""
          THEN {Line("* ", "", "(HEAD detached at " \o repo.head_short \o ")")}
          ELSE {})

\* `git branch -r`, as `git branch -a` shows it
BranchRemoteLines(repo) ==
    { Line("  ", "remotes/origin/", b) : b \in repo.remote }
    \cup (IF repo.remote # {}
          THEN {Line("  ", "remotes/origin/", "HEAD -> origin/main")}
          ELSE {})

\* `git branch -a`
BranchAllLines(repo) == BranchLocalLines(repo) \cup BranchRemoteLines(repo)

\* line.strip().lstrip('* '): the blanks and the '*' in front go
StripMarker(line) ==
    IF line[1] \in {"* ", "  "} THEN Line("", line[2], line[3]) ELSE line

\* text.replace('remotes/origin/', '')
DropOriginPrefix(line) ==
    IF line[2] = "remotes/origin/" THEN Line(line[1], "", line[3]) ELSE line

\* The line that is exactly the name, with nothing in front.
Bare(name) == Line("", "", name)

\* the resolver with the commit test before the branch test
identify_switch_target_commit_first(target, repo, listed, accounts) ==
    IF LooksLikeCommit(target) THEN "commit"
    ELSE IF /\ listed
            /\ \E line \in BranchAllLines(repo) :
                  DropOriginPrefix(StripMarker(line)) = Bare(target)
    THEN "branch"
    ELSE IF target \in accounts THEN "account"
    ELSE "unknown"

\* _identify_switch_target; listed is whether `git branch -a` succeeded
identify_switch_target(target, repo, listed, accounts) ==
    IF /\ listed
       /\ \E line \in BranchAllLines(repo) :
             DropOriginPrefix(StripMarker(line)) = Bare(target)
    THEN "branch"
    ELSE IF target \in accounts THEN "account"
    ELSE IF LooksLikeCommit(target) THEN "commit"
    ELSE "unknown"

\* _identify_undo_target without the rev-parse check
identify_undo_target_unprobed(target, repo, listed, resolves) ==
    IF /\ listed
       /\ \E l \in BranchAllLines(repo) :
             LET line == StripMarker(l) IN
             \/ line = Bare(target)
             \/ line = Line("", "remotes/origin/", target)
             \/ (line[1] = "" /\ line[2] = "remotes/origin/"
                 /\ line[3] = target)
    THEN "branch"
    ELSE IF LooksLikeCommit(target) THEN "commit"
    ELSE "unknown"

\* _identify_undo_target; resolves is whether `git rev-parse target` succeeds
identify_undo_target(target, repo, listed, resolves) ==
    IF /\ listed
       /\ \E l \in BranchAllLines(repo) :
             LET line == StripMarker(l) IN
             \/ line = Bare(target)
             \/ line = Line("", "remotes/origin/", target)
             \/ (line[1] = "" /\ line[2] = "remotes/origin/"
                 /\ line[3] = target)
    THEN "branch"
    ELSE IF LooksLikeCommit(target) /\ resolves THEN "commit"
    ELSE "unknown"

\* The git commands _identify_undo_target runs: the listing, then
\* `git rev-parse target` for a hex-shaped name that is no listed branch.
undo_target_probes(target, repo, listed, resolves) ==
    LET isBranch == /\ listed
                    /\ \E l \in BranchAllLines(repo) :
                          LET line == StripMarker(l) IN
                          \/ line = Bare(target)
                          \/ line = Line("", "remotes/origin/", target)
    IN  <<[cmd |-> <<"branch", "-a">>, ok |-> listed]>>
        \o (IF ~isBranch /\ LooksLikeCommit(target)
            THEN <<[cmd |-> <<"rev-parse", target>>, ok |-> resolves]>>
            ELSE <<>>)

\* get_current_branch when `git branch --show-current` fails
get_current_branch_unknown(repo) == "None"

\* git.get_current_branch: `stdout if stdout else None`
get_current_branch(repo) ==
    IF repo.current # "" THEN repo.current ELSE "None"

----------------------------------------------------------------------------
(* The commands of cli.py that log an action.  A run of a handler is the   *)
(* git commands it issued in order (each with whether it succeeded), the   *)
(* prompts it showed, the log_action calls it made and its last message.   *)

Git(cmd, ok) == [cmd |-> cmd, ok |-> ok]

Ask(tier, ans, passed) ==
    [tier      |-> tier,
     cancelled |-> Cancelled(ans),
     typed     |-> IF tier = "extreme" THEN prompt_text("", ans) ELSE "",
     passed    |-> passed]

Ran(cmds, asked, logs, msg) ==
    [cmds |-> cmds, asked |-> asked, logs |-> logs, msg |-> msg]

\* cli.py pull
PullArgs(branch, rebase) ==
    [action_type  |-> "pull",
     details      |-> [branch |-> branch, rebase |-> rebase],
     undo_command |-> GitCmd(<<"git", "reset", "--hard", "HEAD@{1}">>),
     undo_details |-> None]

\* cli.py sync
SyncArgs(branch) ==
    [action_type  |-> "sync",
     details      |-> [branch |-> branch],
     undo_command |-> GitCmd(<<"git", "reset", "--hard", "HEAD@{1}">>),
     undo_details |-> None]

\* cli.py _switch_commit
SwitchCommitArgs(from, commit) ==
    [action_type  |-> "switch",
     details      |-> [from_branch |-> from, to_commit |-> commit],
     undo_command |-> IF from # "None"
                      THEN GitCmd(<<"git", "switch", from>>) ELSE None,
     undo_details |-> None]

\* cli.py _create_and_switch_branch, from a detached HEAD
CreateBranchDetachedArgs(new) ==
    [action_type  |-> "create_branch",
     details      |-> [from_branch |-> "None", new_branch |-> new],
     undo_command |-> GitCmd(<<"git", "branch", "-d", new>>),
     undo_details |-> None]

\* cli.py _undo_specific_commit
RevertArgs(commit, message) ==
    [action_type  |-> "revert",
     details      |-> [commit |-> commit, message |-> message],
     undo_command |-> GitCmd(<<"git", "reset", "--hard", "HEAD~1">>),
     undo_details |-> None]

\* cli.py _delete_branch; type is "local" or "remote"
DeleteBranchArgs(branch, type) ==
    [action_type  |-> "delete_branch",
     details      |-> [branch |-> branch, type |-> type],
     undo_command |-> IF type = "local"
                      THEN GitCmd(<<"git", "switch", "-c", branch>>)
                      ELSE GitCmd(<<"git", "push", "origin", branch>>),
     undo_details |-> None]

\* push(force), cli.py:893-924
push(force, repo, ans, ok) ==
    LET current_branch == get_current_branch(repo) IN
    IF current_branch = "None"
    THEN Ran(<<>>, <<>>, <<>>, "Cannot push from detached HEAD state.")
    ELSE IF force
    THEN LET passed == require_confirmation(current_branch, "extreme", ans)
         IN  IF ~passed
             THEN Ran(<<>>, <<Ask("extreme", ans, FALSE)>>, <<>>, "")
             ELSE IF ok
             THEN Ran(<<Git(<<"push", "--force">>, TRUE)>>,
                      <<Ask("extreme", ans, TRUE)>>,
                      <<PushArgs(current_branch, TRUE)>>,
                      "Force pushed to remote")
             ELSE Ran(<<Git(<<"push", "--force">>, FALSE)>>,
                      <<Ask("extreme", ans, TRUE)>>, <<>>, "Failed to push")
    ELSE IF ok
    THEN Ran(<<Git(<<"push">>, TRUE)>>, <<>>,
             <<PushArgs(current_branch, FALSE)>>, "Pushed to remote")
    ELSE Ran(<<Git(<<"push">>, FALSE)>>, <<>>, <<>>, "Failed to push")

\* pull(rebase), cli.py:929-957
pull(rebase, repo, ok) ==
    LET current_branch == get_current_branch(repo)
        cmd == IF rebase THEN <<"pull", "--rebase">> ELSE <<"pull">>
    IN  IF current_branch = "None"
        THEN Ran(<<>>, <<>>, <<>>, "Cannot pull in detached HEAD state.")
        ELSE IF ok
        THEN Ran(<<Git(cmd, TRUE)>>, <<>>,
                 <<PullArgs(current_branch, rebase)>>,
                 "Pulled changes from remote")
        ELSE Ran(<<Git(cmd, FALSE)>>, <<>>, <<>>, "Failed to pull")

\* stash(message), cli.py:962-988; status is how `git status --porcelain`
\* of has_uncommitted_changes went: "changes", "clean" or "error"
stash(message, status, ok) ==
    LET probe == Git(<<"status", "--porcelain">>, status # "error")
        cmd   == IF message # ""
                 THEN <<"stash", "push", "-m", message>>
                 ELSE <<"stash", "push">>
    IN  IF status # "changes"
        THEN Ran(<<probe>>, <<>>, <<>>, "No changes to stash.")
        ELSE IF ok
        THEN Ran(<<probe, Git(cmd, TRUE)>>, <<>>,
                 <<StashArgs(message)>>, "Stashed uncommitted changes")
        ELSE Ran(<<probe, Git(cmd, FALSE)>>, <<>>, <<>>,
                 "Failed to stash changes")

\* sync without the `return` after a failed pull
sync_logs_after_failed_pull(repo, pullOk, pushOk) ==
    LET current_branch == get_current_branch(repo) IN
    IF current_branch = "None"
    THEN Ran(<<>>, <<>>, <<>>, "Cannot sync in detached HEAD state.")
    ELSE Ran(<<Git(<<"pull", "--rebase">>, pullOk), Git(<<"push">>, pushOk)>>,
             <<>>, <<SyncArgs(current_branch)>>,
             "Sync completed successfully!")

\* sync, cli.py:1662-1702
sync(repo, pullOk, pushOk) ==
    LET current_branch == get_current_branch(repo) IN
    IF current_branch = "None"
    THEN Ran(<<>>, <<>>, <<>>, "Cannot sync in detached HEAD state.")
    ELSE IF ~pullOk
    THEN Ran(<<Git(<<"pull", "--rebase">>, FALSE)>>, <<>>, <<>>,
             "Pull failed")
    ELSE Ran(<<Git(<<"pull", "--rebase">>, TRUE), Git(<<"push">>, pushOk)>>,
             <<>>, <<SyncArgs(current_branch)>>,
             "Sync completed successfully!")

\* The files commit_save logs: a list of patterns.
SaveFilesArgs(m, files) ==
    [action_type  |-> "save",
     details      |-> [message |-> m, files |-> files],
     undo_command |-> GitCmd(<<"git", "reset", "--soft", "HEAD~1">>),
     undo_details |-> [commit_message |-> m, staged_files |-> files]]

\* The `git add` calls of commit_save, each under its own `except GitError`.
Adds(files, addOk) ==
    [i \in 1..Len(files) |-> Git(<<"add", files[i]>>, addOk[i])]

\* commit_save, cli.py:239-316.  files and message are what the arguments
\* (or, without arguments, the file selection and the message prompt) gave;
\* status and staged are how `git status --porcelain` and
\* `git diff --cached --name-only` went.
commit_save(files, message, status, addOk, staged, commitOk) ==
    LET probe  == <<Git(<<"status", "--porcelain">>, status # "error")>>
        adds   == Adds(files, addOk)
        cached == <<Git(<<"diff", "--cached", "--name-only">>,
                        staged # "error")>>
        commit == <<"commit", "-m", message>>
    IN  IF status = "error"
        THEN Ran(probe, <<>>, <<>>, "Failed to save changes")
        ELSE IF status = "clean"
        THEN Ran(probe, <<>>, <<>>, "No changes to save.")
        ELSE IF files = <<>>
        THEN Ran(probe, <<>>, <<>>, "No files selected.")
        ELSE IF message = ""
        THEN Ran(probe, <<>>, <<>>, "Commit message is required.")
        ELSE IF staged = "error"
        THEN Ran(probe \o adds \o cached, <<>>, <<>>,
                 "Failed to save changes")
        ELSE IF staged = "none"
        THEN Ran(probe \o adds \o cached, <<>>, <<>>,
                 "No files were staged. Nothing to commit.")
        ELSE IF commitOk
        THEN Ran(probe \o adds \o cached \o <<Git(commit, TRUE)>>, <<>>,
                 <<SaveFilesArgs(message, files)>>, "Saved changes")
        ELSE Ran(probe \o adds \o cached \o <<Git(commit, FALSE)>>, <<>>,
                 <<>>, "Failed to save changes")

\* _create_and_switch_branch, cli.py:820-837
create_and_switch_branch(branch_name, repo, before, asked, ok) ==
    LET current_branch == get_current_branch(repo)
        cmd == <<"switch", "-c", branch_name>>
    IN  IF ok
        THEN Ran(before \o <<Git(cmd, TRUE)>>, asked,
                 <<IF current_branch # "None"
                   THEN CreateBranchArgs(current_branch, branch_name)
                   ELSE CreateBranchDetachedArgs(branch_name)>>,
                 "Created and switched to new branch")
        ELSE Ran(before \o <<Git(cmd, FALSE)>>, asked, <<>>,
                 "Failed to create branch")

\* `create or confirm("Branch ... does not exist. Create it?", default=True)`
create_or_confirm(branch_name, create, repo, before, ans, ok) ==
    IF create
    THEN create_and_switch_branch(branch_name, repo, before, <<>>, ok)
    ELSE IF confirm(TRUE, ans)
    THEN create_and_switch_branch(branch_name, repo, before,
                                  <<Ask("medium", ans, TRUE)>>, ok)
    ELSE Ran(before, <<Ask("medium", ans, FALSE)>>, <<>>,
             "Switch cancelled.")

\* _switch_branch, cli.py:788-817; swOk is how `git switch` went: "ok",
\* "pathspec" (the branch does not exist) or "error"
switch_branch(branch_name, create, repo, before, ans, swOk, ok) ==
    LET current_branch == get_current_branch(repo)
        cmd == <<"switch", branch_name>>
    IN  CASE swOk = "ok" ->
                Ran(before \o <<Git(cmd, TRUE)>>, <<>>,
                    <<SwitchArgs(current_branch, branch_name)>>,
                    "Switched to branch")
          [] swOk = "pathspec" ->
                create_or_confirm(branch_name, create, repo,
                                  before \o <<Git(cmd, FALSE)>>, ans, ok)
          [] OTHER ->
                Ran(before \o <<Git(cmd, FALSE)>>, <<>>, <<>>,
                    "Failed to switch branch")

\* _switch_commit, cli.py:840-857
switch_commit(commit_hash, repo, before, ok) ==
    LET current_branch == get_current_branch(repo)
        cmd == <<"checkout", commit_hash>>
    IN  IF ok
        THEN Ran(before \o <<Git(cmd, TRUE)>>, <<>>,
                 <<SwitchCommitArgs(current_branch, commit_hash)>>,
                 "Switched to commit")
        ELSE Ran(before \o <<Git(cmd, FALSE)>>, <<>>, <<>>,
                 "Failed to switch to commit")

\* _switch_account, cli.py:860-874: the account is made current and the
\* repository's user.name and user.email are set; nothing is logged.
switch_account(account_alias, before, ok) ==
    IF ok
    THEN Ran(before \o <<Git(<<"config", "user.name">>, TRUE),
                         Git(<<"config", "user.email">>, TRUE)>>,
             <<>>, <<>>, "Switched to account")
    ELSE Ran(before \o <<Git(<<"config", "user.name">>, FALSE)>>,
             <<>>, <<>>, "Failed to switch account")

\* switch(target, create), cli.py:730-761
switch(target, create, repo, listed, accounts, ans, swOk, ok) ==
    LET target_type == identify_switch_target(target, repo, listed, accounts)
        before      == <<Git(<<"branch", "-a">>, listed)>>
    IN  CASE target_type = "branch" ->
                switch_branch(target, create, repo, before, ans, swOk, ok)
          [] target_type = "commit" ->
                switch_commit(target, repo, before, ok)
          [] target_type = "account" ->
                switch_account(target, before, ok)
          [] OTHER ->
                create_or_confirm(target, create, repo, before, ans, ok)

----------------------------------------------------------------------------
(* cli.py: targeted undo (`bit undo <target>`). *)

\* The four ways cli.py:1308-1311 lets the hash name HEAD.
HeadMatches(commit_hash, repo) ==
    LET c  == Lower(Chars(commit_hash))
        hh == Lower(Chars(repo.head_hash))
        hs == Lower(Chars(repo.head_short))
    IN  \/ StartsWith(hh, c)
        \/ StartsWith(hs, c)
        \/ c = hh
        \/ c = hs

\* The text the extreme confirmation of the rebase asks for (hash_part, the
\* %h of the log output, is taken to be the hash as it was given).
RewriteTarget(commit_hash) == "remove commit " \o commit_hash

\* What the user can type into the prompts of a targeted undo.
TargetTextAnswers(target) ==
    TextAnswers \cup {Answer("answered", FALSE, RewriteTarget(target))}

\* The part of _undo_specific_commit for a commit that is not HEAD (or whose
\* HEAD check raised GitError), cli.py:1322-1363.  env.choice is what
\* select_from_list returned: "none", "revert" or "rebase".
undo_older_commit(commit_hash, before, asked, env, conf, typed) ==
    CASE env.choice = "none" ->
            Ran(before, asked, <<>>, "Undo cancelled.")
      [] env.choice = "revert" ->
            IF ~confirm(TRUE, conf)
            THEN Ran(before, asked \o <<Ask("medium", conf, FALSE)>>,
                     <<>>, "")
            ELSE IF env.revertOk
            THEN Ran(before \o <<Git(<<"revert", "--no-edit", commit_hash>>,
                                     TRUE)>>,
                     asked \o <<Ask("medium", conf, TRUE)>>,
                     <<RevertArgs(commit_hash, "message")>>,
                     "Created revert commit")
            ELSE Ran(before \o <<Git(<<"revert", "--no-edit", commit_hash>>,
                                     FALSE)>>,
                     asked \o <<Ask("medium", conf, TRUE)>>,
                     <<>>, "Failed to undo commit")
      [] OTHER ->
            IF ~require_confirmation(RewriteTarget(commit_hash), "extreme",
                                     typed)
            THEN Ran(before, asked \o <<Ask("extreme", typed, FALSE)>>,
                     <<>>, "")
            ELSE IF ~env.parentOk
            THEN Ran(before \o <<Git(<<"rev-parse", commit_hash \o "^">>, FALSE)>>,
                     asked \o <<Ask("extreme", typed, TRUE)>>,
                     <<>>, "Failed to start interactive rebase")
            ELSE Ran(before \o <<Git(<<"rev-parse", commit_hash \o "^">>, TRUE),
                                 Git(<<"rebase", "--interactive">>,
                                     env.rebaseOk)>>,
                     asked \o <<Ask("extreme", typed, TRUE)>>,
                     <<>>,
                     IF env.rebaseOk THEN "Started interactive rebase"
                     ELSE "Failed to start interactive rebase")

\* _undo_specific_commit, were it to log the soft reset of HEAD
undo_specific_commit_logs_reset(commit_hash, repo, before, env, headConf, conf, typed) ==
    LET show  == before \o <<Git(<<"log", "-1", commit_hash>>, env.logOk)>>
        heads == show \o <<Git(<<"rev-parse", "HEAD">>, env.headOk)>>
        reset == <<"reset", "--soft", "HEAD~1">>
    IN  IF ~env.logOk
        THEN Ran(show, <<>>, <<>>, "Commit not found.")
        ELSE IF ~env.headOk
        THEN undo_older_commit(commit_hash, heads, <<>>, env, conf, typed)
        ELSE IF ~HeadMatches(commit_hash, repo)
        THEN undo_older_commit(commit_hash, heads, <<>>, env, conf, typed)
        ELSE IF ~confirm(TRUE, headConf)
        THEN Ran(heads, <<Ask("medium", headConf, FALSE)>>, <<>>, "")
        ELSE IF env.resetOk
        THEN Ran(heads \o <<Git(reset, TRUE)>>,
                 <<Ask("medium", headConf, TRUE)>>,
                 <<[action_type  |-> "reset",
                    details      |-> [commit |-> commit_hash],
                    undo_command |-> None,
                    undo_details |-> None]>>,
                 "Undid commit")
        ELSE undo_older_commit(commit_hash, heads \o <<Git(reset, FALSE)>>,
                               <<Ask("medium", headConf, TRUE)>>,
                               env, conf, typed)

\* _undo_specific_commit, cli.py:1289-1366.  The HEAD check, the
\* confirmation and the soft reset share one `try ... except GitError: pass`.
undo_specific_commit(commit_hash, repo, before, env, headConf, conf, typed) ==
    LET show  == before \o <<Git(<<"log", "-1", commit_hash>>, env.logOk)>>
        heads == show \o <<Git(<<"rev-parse", "HEAD">>, env.headOk)>>
        reset == <<"reset", "--soft", "HEAD~1">>
    IN  IF ~env.logOk
        THEN Ran(show, <<>>, <<>>, "Commit not found.")
        ELSE IF ~env.headOk
        THEN undo_older_commit(commit_hash, heads, <<>>, env, conf, typed)
        ELSE IF ~HeadMatches(commit_hash, repo)
        THEN undo_older_commit(commit_hash, heads, <<>>, env, conf, typed)
        ELSE IF ~confirm(TRUE, headConf)
        THEN Ran(heads, <<Ask("medium", headConf, FALSE)>>, <<>>, "")
        ELSE IF env.resetOk
        THEN Ran(heads \o <<Git(reset, TRUE)>>,
                 <<Ask("medium", headConf, TRUE)>>, <<>>, "Undid commit")
        ELSE undo_older_commit(commit_hash, heads \o <<Git(reset, FALSE)>>,
                               <<Ask("medium", headConf, TRUE)>>,
                               env, conf, typed)

\* The literal list of cli.py:1382.
ProtectedBranches == {"main", "master", "develop"}

\* local_branches of cli.py:1390: line.strip().lstrip('* ') of `git branch`
LocalBranches(repo) ==
    { StripMarker(line)[3] : line \in BranchLocalLines(repo) }

\* `git branch -r`
BranchRLines(repo) ==
    { Line("  ", "origin/", b) : b \in repo.remote }
    \cup (IF repo.remote # {}
          THEN {Line("  ", "origin/", "HEAD -> origin/main")} ELSE {})

\* line.strip().replace('origin/', ''): every 'origin/' of the line goes
DropEveryOrigin(line) ==
    IF line[3] = "HEAD -> origin/main" THEN "HEAD -> main" ELSE line[3]

\* remote_branches of cli.py:1424-1425
RemoteBranches(repo) ==
    { DropEveryOrigin(line) : line \in BranchRLines(repo) }

\* The end of _delete_branch, cli.py:1421-1439: the offer to delete the
\* branch of origin too.  Every GitError in it is passed over.
delete_remote_branch(branch_name, repo, sofar, env, remoteConf) ==
    LET listing == sofar.cmds \o <<Git(<<"branch", "-r">>, env.rlistOk)>>
        cmd     == <<"push", "origin", "--delete", branch_name>>
    IN  IF ~env.rlistOk \/ branch_name \notin RemoteBranches(repo)
        THEN Ran(listing, sofar.asked, sofar.logs, sofar.msg)
        ELSE IF ~confirm(FALSE, remoteConf)
        THEN Ran(listing, sofar.asked \o <<Ask("high", remoteConf, FALSE)>>,
                 sofar.logs, sofar.msg)
        ELSE IF env.rdelOk
        THEN Ran(listing \o <<Git(cmd, TRUE)>>,
                 sofar.asked \o <<Ask("high", remoteConf, TRUE)>>,
                 sofar.logs \o <<DeleteBranchArgs(branch_name, "remote")>>,
                 "Deleted remote branch")
        ELSE Ran(listing \o <<Git(cmd, FALSE)>>,
                 sofar.asked \o <<Ask("high", remoteConf, TRUE)>>,
                 sofar.logs, sofar.msg)

\* The local part of _delete_branch, cli.py:1387-1419, and what follows it.
\* env.del is how the safe delete went: "ok" or "failed".
delete_local_branch(branch_name, repo, before, asked, env, forceConf, remoteConf) ==
    LET listing == before \o <<Git(<<"branch">>, env.listOk)>>
        safe    == <<"branch", "-d", branch_name>>
        forced  == <<"branch", "-D", branch_name>>
        logged  == <<DeleteBranchArgs(branch_name, "local")>>
    IN  IF ~env.listOk
        THEN delete_remote_branch(branch_name, repo,
                 Ran(listing, asked, <<>>, "Failed to delete branch"),
                 env, remoteConf)
        ELSE IF branch_name \notin LocalBranches(repo)
        THEN Ran(listing, asked, <<>>, "Local branch not found.")
        ELSE IF env.del = "ok"
        THEN delete_remote_branch(branch_name, repo,
                 Ran(listing \o <<Git(safe, TRUE)>>, asked, logged,
                     "Deleted local branch"),
                 env, remoteConf)
        ELSE IF ~confirm(FALSE, forceConf)
        THEN Ran(listing \o <<Git(safe, FALSE)>>,
                 asked \o <<Ask("high", forceConf, FALSE)>>, <<>>,
                 "Branch deletion cancelled.")
        ELSE IF env.forceOk
        THEN delete_remote_branch(branch_name, repo,
                 Ran(listing \o <<Git(safe, FALSE), Git(forced, TRUE)>>,
                     asked \o <<Ask("high", forceConf, TRUE)>>, logged,
                     "Force deleted local branch"),
                 env, remoteConf)
        ELSE delete_remote_branch(branch_name, repo,
                 Ran(listing \o <<Git(safe, FALSE), Git(forced, FALSE)>>,
                     asked \o <<Ask("high", forceConf, TRUE)>>, <<>>,
                     "Failed to delete branch"),
                 env, remoteConf)

\* _delete_branch, cli.py:1371-1442
delete_branch(branch_name, repo, before, env, typed, forceConf, remoteConf) ==
    LET current_branch == get_current_branch(repo) IN
    IF branch_name = current_branch
    THEN Ran(before, <<>>, <<>>, "Cannot delete the current branch")
    ELSE IF branch_name \in ProtectedBranches
    THEN IF ~require_confirmation(branch_name, "extreme", typed)
         THEN Ran(before, <<Ask("extreme", typed, FALSE)>>, <<>>, "")
         ELSE delete_local_branch(branch_name, repo, before,
                                  <<Ask("extreme", typed, TRUE)>>, env,
                                  forceConf, remoteConf)
    ELSE delete_local_branch(branch_name, repo, before, <<>>, env,
                             forceConf, remoteConf)

\* _targeted_undo, cli.py:1239-1258
targeted_undo(target, repo, env, headConf, conf, typed, forceConf, remoteConf) ==
    LET before      == undo_target_probes(target, repo, env.listed,
                                          env.resolves)
        target_type == identify_undo_target(target, repo, env.listed,
                                            env.resolves)
    IN  CASE target_type = "commit" ->
                undo_specific_commit(target, repo, before, env,
                                     headConf, conf, typed)
          [] target_type = "branch" ->
                delete_branch(target, repo, before, env, typed,
                              forceConf, remoteConf)
          [] OTHER ->
                Ran(before, <<>>, <<>>, "Could not identify target")

----------------------------------------------------------------------------
(* SpecCmd: the logging commands and the targeted undo, each run inside a  *)
(* git repository, with every git call and every prompt going either way.  *)

\* The log after the log_action calls of one run.
RECURSIVE LogAll(_, _)
LogAll(h, logs) ==
    IF logs = <<>> THEN h
    ELSE LogAll(log_action(h, Head(logs)), Tail(logs))

CmdDone(op, pre, target, repo, listed, resolves, target_type, run) ==
    [op          |-> op,
     pre         |-> pre,
     target      |-> target,
     repo        |-> repo,
     listed      |-> listed,       \* `git branch -a` succeeded
     resolves    |-> resolves,     \* `git rev-parse target` would succeed
     target_type |-> target_type,  \* what the resolver said, "" when none ran
     cmds        |-> run.cmds,
     asked       |-> run.asked,
     logs        |-> run.logs,
     msg         |-> run.msg]

\* The command ran `run`: its records are logged and it is what `last` shows.
Finish(op, target, repo, listed, resolves, target_type, run) ==
    /\ history' = LogAll(history, run.logs)
    /\ last' = CmdDone(op, history, target, repo, listed, resolves,
                       target_type, run)
    /\ UNCHANGED <<nAppended, nRemoved, disk>>

CmdReady == last.op = "idle" /\ Len(history) < MaxCmdLog

Yes == Answer("answered", TRUE, "")

\* The answers to a prompt that is shown only when `shown` holds.
IfShown(shown, answers) == IF shown THEN answers ELSE {Yes}

\* The outcomes of a git call that is made only when `made` holds.
IfMade(made) == IF made THEN BOOLEAN ELSE {TRUE}

RunSave ==
    /\ \E files \in {<<>>, <<".">>, <<"a.py", "b.py">>},
          message \in {"", "init"},
          status \in {"changes", "clean", "error"},
          staged \in {"some", "none", "error"},
          commitOk \in BOOLEAN :
         \E addOk \in [1..Len(files) -> BOOLEAN] :
            Finish("save", "", Repo("main", {"main"}, {}, "", ""), TRUE,
                   TRUE, "",
                   commit_save(files, message, status, addOk, staged,
                               commitOk))

CmdSave == CmdReady /\ RunSave

\* `bit switch <target>` with every target, repository and outcome of its
\* git calls and prompts.
RunSwitch ==
    /\ \E target \in Targets, create \in BOOLEAN, repo \in Repos,
          listed \in BOOLEAN, accounts \in AccountSets,
          ok \in BOOLEAN :
         LET target_type == identify_switch_target(target, repo, listed,
                                                   accounts)
         IN
         \E swOk \in IF target_type = "branch"
                     THEN {"ok", "pathspec", "error"} ELSE {"ok"} :
         \E ans \in IfShown(/\ ~create
                            /\ \/ target_type = "unknown"
                               \/ target_type = "branch" /\ swOk = "pathspec",
                            ConfirmAnswers) :
            Finish("switch", target, repo, listed, TRUE,
                   identify_switch_target(target, repo, listed, accounts),
                   switch(target, create, repo, listed, accounts, ans,
                          swOk, ok))

CmdSwitch == CmdReady /\ RunSwitch

CmdPush ==
    /\ CmdReady
    /\ \E force \in BOOLEAN, repo \in Repos, ok \in BOOLEAN :
         \E ans \in IfShown(force, TextAnswers \cup {Answer("answered",
                                                            FALSE, "beef")}) :
            Finish("push", "", repo, TRUE, TRUE, "",
                   push(force, repo, ans, ok))

CmdPull ==
    /\ CmdReady
    /\ \E rebase \in BOOLEAN, repo \in Repos, ok \in BOOLEAN :
         Finish("pull", "", repo, TRUE, TRUE, "", pull(rebase, repo, ok))

CmdStash ==
    /\ CmdReady
    /\ \E message \in {"", "wip"}, status \in {"changes", "clean", "error"},
          ok \in BOOLEAN :
         Finish("stash", "", Repo("main", {"main"}, {}, "", ""), TRUE, TRUE,
                "", stash(message, status, ok))

CmdSync ==
    /\ CmdReady
    /\ \E repo \in Repos, pullOk \in BOOLEAN, pushOk \in BOOLEAN :
         Finish("sync", "", repo, TRUE, TRUE, "", sync(repo, pullOk, pushOk))

\* The outcomes of the git calls of a targeted undo.
UndoEnv(listed, resolves, logOk, headOk, resetOk, choice, revertOk, parentOk,
        rebaseOk, listOk, del, forceOk, rlistOk, rdelOk) ==
    [listed |-> listed, resolves |-> resolves, logOk |-> logOk,
     headOk |-> headOk, resetOk |-> resetOk, choice |-> choice,
     revertOk |-> revertOk, parentOk |-> parentOk, rebaseOk |-> rebaseOk,
     listOk |-> listOk, del |-> del, forceOk |-> forceOk,
     rlistOk |-> rlistOk, rdelOk |-> rdelOk]

\* `bit undo <target>` with a target that does not resolve to a branch.
\* A git call or a prompt that the run does not reach has one outcome.
RunUndoCommit ==
    /\ \E target \in Targets, repo \in Repos, listed \in BOOLEAN,
          resolves \in BOOLEAN :
         LET target_type == identify_undo_target(target, repo, listed,
                                                 resolves)
             isCommit    == target_type = "commit"
         IN
         /\ target_type # "branch"
         /\ \E logOk \in IfMade(isCommit) :
            \E headOk \in IfMade(isCommit /\ logOk) :
            LET atHead == /\ isCommit /\ logOk /\ headOk
                          /\ HeadMatches(target, repo)
            IN
            \E headConf \in IfShown(atHead, ConfirmAnswers) :
            \E resetOk \in IfMade(atHead /\ confirm(TRUE, headConf)) :
            LET older == /\ isCommit /\ logOk
                         /\ \/ ~atHead
                            \/ confirm(TRUE, headConf) /\ ~resetOk
            IN
            \E choice \in IF older THEN {"none", "revert", "rebase"}
                          ELSE {"none"} :
            \E conf \in IfShown(choice = "revert", ConfirmAnswers),
               typed \in IfShown(choice = "rebase",
                                 TargetTextAnswers(target)) :
            \E revertOk \in IfMade(choice = "revert" /\ confirm(TRUE, conf)),
               parentOk \in IfMade(choice = "rebase"),
               rebaseOk \in IfMade(choice = "rebase") :
               Finish("undo_target", target, repo, listed, resolves,
                      target_type,
                      targeted_undo(target, repo,
                          UndoEnv(listed, resolves, logOk, headOk, resetOk,
                                  choice, revertOk, parentOk, rebaseOk,
                                  TRUE, "ok", TRUE, TRUE, TRUE),
                          headConf, conf, typed, Yes, Yes))

CmdUndoCommit == CmdReady /\ RunUndoCommit

\* `bit undo <target>` with a target that resolves to a branch.
RunUndoBranch ==
    /\ \E target \in Targets, repo \in Repos, resolves \in BOOLEAN :
         /\ identify_undo_target(target, repo, TRUE, resolves) = "branch"
         /\ LET isCurrent == target = get_current_branch(repo) IN
            \E typed \in IfShown(~isCurrent /\ target \in ProtectedBranches,
                                 TargetTextAnswers(target)) :
            LET gated == /\ target \in ProtectedBranches
                         /\ ~require_confirmation(target, "extreme", typed)
                goes  == ~isCurrent /\ ~gated
            IN
            \E listOk \in IfMade(goes) :
            LET isLocal == goes /\ listOk /\ target \in LocalBranches(repo)
            IN
            \E del \in IF isLocal THEN {"ok", "failed"} ELSE {"ok"} :
            \E forceConf \in IfShown(del = "failed", ConfirmAnswers) :
            \E forceOk \in IfMade(del = "failed" /\ confirm(FALSE, forceConf)),
               rlistOk \in IfMade(goes) :
            LET offered == /\ goes /\ rlistOk
                           /\ target \in RemoteBranches(repo)
            IN
            \E remoteConf \in IfShown(offered, ConfirmAnswers) :
            \E rdelOk \in IfMade(offered /\ confirm(FALSE, remoteConf)) :
               Finish("undo_target", target, repo, TRUE, resolves, "branch",
                      targeted_undo(target, repo,
                          UndoEnv(TRUE, resolves, TRUE, TRUE, TRUE, "none",
                                  TRUE, TRUE, TRUE, listOk, del, forceOk,
                                  rlistOk, rdelOk),
                          Yes, Yes, typed, forceConf, remoteConf))

CmdUndoBranch == CmdReady /\ RunUndoBranch

NextCmd ==
    \/ CmdSave
    \/ CmdSwitch
    \/ CmdPush
    \/ CmdPull
    \/ CmdStash
    \/ CmdSync
    \/ CmdUndoCommit
    \/ CmdUndoBranch
    \/ Return

SpecCmd == Init /\ [][NextCmd]_vars

----------------------------------------------------------------------------
(* SpecTarget: `bit save` and the targeted undo, the undo also on a log    *)
(* that already holds records.                                             *)

TargetSave == CmdReady /\ RunSave

TargetReady == last.op = "idle" /\ Len(history) <= MaxCmdLog

TargetUndoCommit == TargetReady /\ RunUndoCommit

TargetUndoBranch == TargetReady /\ RunUndoBranch

NextTarget ==
    \/ TargetSave
    \/ TargetUndoCommit
    \/ TargetUndoBranch
    \/ Return

SpecTarget == Init /\ [][NextTarget]_vars

----------------------------------------------------------------------------
(* SpecRound: a log of any length up to the cap, then `bit switch`, then   *)
(* `bit undo` as the next command.  The branch the repository is on after  *)
(* each command is worked out from the git commands that succeeded.        *)

InNoCommand == last.op \in {"idle", "log_action"}

\* Earlier commands fill the log.
RoundLogAction == InNoCommand /\ StoreLogAction

RoundSwitch == InNoCommand /\ RunSwitch

\* The branch a run of `bit switch` leaves the repository on ("" for a
\* detached HEAD): git switch and git switch -c move to the branch named
\* last, git checkout <hash> detaches, a failed command moves nothing.
CurrentAfterSwitch(repo, cmds) ==
    LET g == cmds[Len(cmds)]
    IN  CASE g.ok /\ g.cmd[1] = "switch"   -> g.cmd[Len(g.cmd)]
          [] g.ok /\ g.cmd[1] = "checkout" -> ""
          [] OTHER                          -> repo.current

\* The branch after one step of _perform_undo.
CurrentAfterUndo(current, step) ==
    IF step.outcome = "undone" /\ step.cmd[1] = "switch"
    THEN step.cmd[2] ELSE current

RoundUndone(prev, pre, conf, steps, msg, current) ==
    [op      |-> "single_undo",
     pre     |-> pre,
     confirm |-> conf,
     steps   |-> steps,
     msg     |-> msg,
     prev    |-> prev,        \* the `bit switch` that ran just before
     current |-> current]     \* the branch the repository is on afterwards

\* _single_undo as the command after `bit switch`, cli.py:1178-1193
RoundSingleUndo ==
    /\ last.op = "switch"
    /\ LET last_action == get_last_action(history)
           current     == CurrentAfterSwitch(last.repo, last.cmds)
       IN  IF last_action = None
           THEN /\ last' = RoundUndone(last, history, <<>>, <<>>,
                                       "No actions to undo.", current)
                /\ UNCHANGED history
           ELSE \E conf \in ConfirmAnswers :
                IF ~confirm(TRUE, conf)
                THEN /\ last' = RoundUndone(last, history, Asked(conf, FALSE),
                                            <<>>, "", current)
                     /\ UNCHANGED history
                ELSE \E step \in StepOutcomes(last_action) :
                     /\ history' = single_undo_history(history, step)
                     /\ last' = RoundUndone(last, history, Asked(conf, TRUE),
                                            <<step>>,
                                            IF step.raised
                                            THEN "Failed to undo" ELSE "",
                                            CurrentAfterUndo(current, step))
    /\ UNCHANGED <<nAppended, nRemoved, disk>>

NextRound ==
    \/ RoundLogAction
    \/ RoundSwitch
    \/ RoundSingleUndo

SpecRound == Init /\ [][NextRound]_vars

----------------------------------------------------------------------------
(* Claims about the store (SpecStore). *)

\* The record the n-th log_action call of SpecStore stores, at position i.
StoredSave(i, n) ==
    [id           |-> i,
     action_type  |-> "save",
     details      |-> [message |-> n, files |-> <<".">>],
     undo_command |-> GitCmd(<<"git", "reset", "--soft", "HEAD~1">>),
     undo_details |-> [commit_message |-> n, staged_files |-> <<".">>]]

\* C1: after more than 50 log_action calls on an empty log (and nothing
\* else), the log is exactly the 50 most recently appended records in
\* append order, with ids 1..50.
C1_KeepsMostRecent50 ==
    (nRemoved = 0 /\ nAppended > HistoryCap) =>
        history = [i \in 1..HistoryCap |->
                      StoredSave(i, nAppended - HistoryCap + i)]

C1_Witness ==
    /\ nRemoved = 0
    /\ nAppended = HistoryCap + 2
    /\ Len(history) = HistoryCap
    /\ history[1].details.message = 3

\* C10: whatever appends, removals (of the latest, or the by-id call) and
\* clears were made, no two records of the log have the same id.
C10_IdsUnique ==
    \A i \in 1..Len(history), j \in 1..Len(history) :
        i # j => history[i].id # history[j].id

\* The log is back at the cap after a trim, a removal and another append.
C10_Witness ==
    /\ nRemoved = 1
    /\ nAppended = HistoryCap + 2
    /\ Len(history) = HistoryCap
    /\ last.op = "log_action"

\* C28: starting from the empty log, after any sequence of log_action,
\* remove_last_action and clear_history the log holds at most 50 records and
\* the i-th record in stored order has id i.
C28_IdsDenseAndCapped ==
    /\ Len(history) <= HistoryCap
    /\ \A i \in 1..Len(history) : history[i].id = i

\* The 51st append trimmed the log, the latest record was removed and a
\* 52nd append filled the log again.
C28_Witness ==
    /\ nRemoved = 1
    /\ nAppended = HistoryCap + 2
    /\ Len(history) = HistoryCap
    /\ history[1].details.message = 2
    /\ history[HistoryCap].details.message = HistoryCap + 2
    /\ history[HistoryCap].id = HistoryCap

----------------------------------------------------------------------------
(* Claims about storage failures (SpecDisk). *)

IsDiskOp == "result" \in DOMAIN last

\* C12: when the write of the file fails during log_action,
\* remove_last_action or clear_history, the log read back afterwards is the
\* complete previous log or the complete new one.
C12_FailedWriteKeepsLog ==
    (IsDiskOp /\ last.result.saved /\ last.save # "ok") =>
        history \in {last.pre, last.result.intended}

\* C13: log_action never raises to its caller: when the load or the save
\* fails the failure is logged, and the command that made the call ends as
\* it would have without the failure.
C13_LogActionNeverRaises ==
    (IsDiskOp /\ last.op = "log_action") =>
        /\ ~last.result.raised
        /\ last.outcome = "success"
        /\ (last.load # "ok" \/ last.save # "ok") => last.result.error_logged

\* A save that failed part-way while recording, and one that failed to read.
C13_Witness ==
    /\ IsDiskOp
    /\ last.op = "log_action"
    /\ last.load = "ok"
    /\ last.save = "write_failed"
    /\ last.result.saved
    /\ last.pre # <<>>
    /\ last.outcome = "success"

\* What get_history() returns for the file as it is now.
ReadBack == get_history_io(history, disk, <<>>, "ok").value

\* C21: a record log_action wrote reads back through get_history with the
\* action_type, details and undo_command it was given (None for an absent
\* undo_command) and with undo_details equal to the mapping given, or to {}
\* when none was given; the records written before it read back unchanged.
C21_WrittenReadsBackTheSame ==
    (IsDiskOp /\ last.op = "log_action" /\ last.load = "ok"
              /\ last.save = "ok") =>
        /\ ReadBack # <<>>
        /\ LET rec == ReadBack[Len(ReadBack)]
               a   == last.input
           IN  /\ rec.action_type = a.action_type
               /\ rec.details = a.details
               /\ rec.undo_command = a.undo_command
               /\ rec.undo_details = IF a.undo_details = None
                                     THEN EmptyDict ELSE a.undo_details
        /\ SubSeq(ReadBack, 1, Len(ReadBack) - 1)
               = (IF last.was = "json" THEN last.pre ELSE <<>>)

\* A record without undo_command and undo_details written after another.
C21_Witness ==
    /\ IsDiskOp
    /\ last.op = "log_action"
    /\ last.load = "ok"
    /\ last.save = "ok"
    /\ last.input.undo_command = None
    /\ last.input.undo_details = None
    /\ Len(last.pre) = 1
    /\ Len(history) = 2

\* C22: for every limit >= 0, get_history(limit) returns the last
\* min(limit, length) records of the log, oldest of them first.
C22_ReturnsLastMinLimitRecords ==
    (IsDiskOp /\ last.op = "get_history" /\ last.load = "ok"
              /\ last.was = "json" /\ Len(last.input) = 1) =>
        LET n == Len(last.pre)
            k == Min(last.input[1], n)
        IN  last.result.value = SubSeq(last.pre, n - k + 1, n)

\* C23: when the file is unparsable, get_history and get_last_action answer
\* as on an empty log without raising, and `bit undo` reports that there is
\* nothing to undo, asks nothing, runs no git command and leaves the file.
C23_UnparsableReadsAsEmpty ==
    (IsDiskOp /\ last.was = "unparsable" /\ last.load = "ok") =>
        /\ last.op = "get_history" =>
              ~last.result.raised /\ last.result.value = <<>>
        /\ last.op = "get_last_action" =>
              ~last.result.raised /\ last.result.value = None
        /\ last.op = "single_undo" =>
              /\ last.outcome = "No actions to undo."
              /\ last.confirm = <<>>
              /\ Commands(last.steps) = <<>>
              /\ history = <<>>
              /\ disk = "unparsable"

\* `bit undo` ran on a file that a failed write had cut short.
C23_Witness ==
    /\ IsDiskOp
    /\ last.op = "single_undo"
    /\ last.was = "unparsable"
    /\ last.load = "ok"
    /\ last.result.error_logged

----------------------------------------------------------------------------
(* Claims about undo (Spec). *)

IsUndo == last.op \in {"single_undo", "interactive_undo"}

\* The record of log h with the given id.
RecById(h, id) == h[CHOOSE i \in 1..Len(h) : h[i].id = id]

\* Log h without the records whose id is in ids.
WithoutIds(h, ids) == SelectSeq(h, LAMBDA r : r.id \notin ids)

\* The steps before the first one that did not reverse its action.
RECURSIVE UndonePrefix(_)
UndonePrefix(steps) ==
    IF steps = <<>> \/ Head(steps).outcome # "undone" THEN <<>>
    ELSE <<Head(steps)>> \o UndonePrefix(Tail(steps))

StepIds(steps) == { steps[i].id : i \in 1..Len(steps) }

\* C2: interactive multi-undo removes from the log exactly the records
\* whose reversal succeeded (those before the first failing one, or the whole
\* batch when none fails); every other record stays.
C2_RemovesExactlyTheUndone ==
    (last.op = "interactive_undo" /\ last.steps # <<>>) =>
        history = WithoutIds(last.pre, StepIds(UndonePrefix(last.steps)))

\* C3: single-undo of a push record with undo_details.dangerous, the
\* extreme confirmation declined: no git command is issued and the log is
\* unchanged (the push record stays).
C3_DeclinedDangerousPushKeepsRecord ==
    (/\ last.op = "single_undo"
     /\ last.steps # <<>>
     /\ last.steps[1].prompt = "extreme"
     /\ ~last.steps[1].passed) =>
        /\ Commands(last.steps) = <<>>
        /\ history = last.pre

\* C4: single-undo of a record with no known reversal warns, issues no git
\* command and leaves the log as it was.
C4_UnknownActionKeepsRecord ==
    (/\ last.op = "single_undo"
     /\ last.steps # <<>>
     /\ last.steps[1].outcome = "dont_know") =>
        /\ Commands(last.steps) = <<>>
        /\ history = last.pre

\* C5: in interactive multi-undo a step that ends in "don't know how to
\* undo" halts the batch: it is the last step and is not counted as a
\* successful undo.
C5_DontKnowHaltsBatch ==
    last.op = "interactive_undo" =>
        \A i \in 1..Len(last.steps) :
            last.steps[i].outcome = "dont_know" =>
                /\ i = Len(last.steps)
                /\ last.successful < i

\* The filtered menu of a log, as the claim words it: the records whose type
\* is one of save, merge, push, pull, stash, switch or that carry an
\* undo_command, most recent first.
RECURSIVE FilteredNewestFirst(_)
FilteredNewestFirst(h) ==
    IF h = <<>> THEN <<>>
    ELSE LET r == h[Len(h)]
             rest == FilteredNewestFirst(SubSeq(h, 1, Len(h) - 1))
         IN  IF \/ r.action_type \in
                       {"save", "merge", "push", "pull", "stash", "switch"}
                \/ r.undo_command # None
             THEN <<r>> \o rest ELSE rest

\* C6: interactive multi-undo with the k-th menu entry picked attempts the
\* reversals of the 1st, 2nd, ... entries in that order, at most k of them,
\* and none after the first that raises a git failure.
C6_NewestFirstAtMostPickedStopAtFailure ==
    (last.op = "interactive_undo" /\ last.picked > 0) =>
        LET menu == FilteredNewestFirst(last.pre) IN
        /\ Len(last.steps) <= last.picked
        /\ \A i \in 1..Len(last.steps) :
              /\ last.steps[i].id = menu[i].id
              /\ last.steps[i].raised => i = Len(last.steps)

\* The 3rd of 3 entries is picked and the 2nd reversal fails.
C6_Witness ==
    /\ last.op = "interactive_undo"
    /\ last.picked = 3
    /\ Len(last.batch) = 3
    /\ Len(last.steps) = 2
    /\ last.steps[1].outcome = "undone"
    /\ last.steps[2].raised

IsPushForce(step) == step.cmd = <<"push", "--force">>

\* C7 as stated: every `push --force` the undo engine issues, for any push
\* record, follows a passed extreme confirmation in the same step.
C7_EveryPushForceIsGated ==
    IsUndo =>
        \A i \in 1..Len(last.steps) :
            IsPushForce(last.steps[i]) =>
                last.steps[i].prompt = "extreme" /\ last.steps[i].passed

\* C8: a cancelled prompt counts as declined for every confirmation of
\* undo: after it no git command is issued and the log is unchanged.
C8_CancelledPromptDeclines ==
    IsUndo =>
        /\ (last.confirm # <<>> /\ last.confirm[1].cancelled) =>
              (last.steps = <<>> /\ history = last.pre)
        /\ \A i \in 1..Len(last.steps) :
              last.steps[i].cancelled => last.steps[i].cmd = <<>>

\* C9: remove_by_id(id) removes the record with that id and only it, and
\* changes the id of no other record.
C9_RemoveByIdRemovesTheRecord ==
    (last.op = "interactive_undo" /\ last.removal # <<>>) =>
        history = WithoutIds(last.pre,
                             { last.removal[i] : i \in 1..Len(last.removal) })

\* C14: single-undo on an empty log reports that there is nothing to undo,
\* shows no confirmation, issues no git command and leaves the log empty.
C14_EmptyLogNothingToUndo ==
    (last.op = "single_undo" /\ last.pre = <<>>) =>
        /\ last.msg = "No actions to undo."
        /\ last.confirm = <<>>
        /\ last.steps = <<>>
        /\ history = <<>>

C14_Witness ==
    /\ last.op = "single_undo"
    /\ last.pre = <<>>
    /\ last.msg = "No actions to undo."

\* The log [save, switch, push(force=false)] of the scenario.
IsSaveSwitchPush(h) ==
    /\ Len(h) = 3
    /\ h[1].action_type = "save"
    /\ h[2].action_type = "switch"
    /\ h[3].action_type = "push"
    /\ ~h[3].details.force

\* C15: a confirmed single-undo whose reversal succeeds removes exactly the
\* most recent record and leaves every other record as it was, in the same
\* order; on the log [save, switch, push(force=false)] it issues a force-push
\* and the log afterwards is [save, switch].
C15_RemovesOnlyTheLatest ==
    (/\ last.op = "single_undo"
     /\ last.steps # <<>>
     /\ last.steps[1].outcome = "undone") =>
        /\ last.steps[1].id = last.pre[Len(last.pre)].id
        /\ history = SubSeq(last.pre, 1, Len(last.pre) - 1)
        /\ IsSaveSwitchPush(last.pre) =>
              /\ Commands(last.steps) = << <<"push", "--force">> >>
              /\ history = <<last.pre[1], last.pre[2]>>

C15_Witness ==
    /\ last.op = "single_undo"
    /\ IsSaveSwitchPush(last.pre)
    /\ last.confirm # <<>>
    /\ last.confirm[1].result
    /\ last.steps # <<>>
    /\ last.steps[1].outcome = "undone"
    /\ Len(history) = 2

\* C24: in the interactive undo the batch is the filtered records from the
\* most recent down through and including the entry the user picked,
\* whatever the menu lines of the entries read.
C24_BatchEndsAtThePickedEntry ==
    (last.op = "interactive_undo" /\ last.picked > 0) =>
        last.batch = Ids(SubSeq(FilteredNewestFirst(last.pre), 1, last.picked))

\* C27: when the git command of a confirmed single undo fails, the failure
\* is reported and the log is left as it was: the record is not removed.
C27_FailedReversalKeepsLog ==
    (last.op = "single_undo" /\ last.steps # <<>> /\ last.steps[1].raised) =>
        /\ last.msg = "Failed to undo"
        /\ history = last.pre

\* A confirmed undo of the latest of two records whose git command failed.
C27_Witness ==
    /\ last.op = "single_undo"
    /\ last.confirm # <<>>
    /\ last.confirm[1].result
    /\ last.steps # <<>>
    /\ last.steps[1].raised
    /\ last.steps[1].cmd # <<>>
    /\ Len(last.pre) = 2
    /\ Len(history) = 2

----------------------------------------------------------------------------
(* Claims about the commands and the targeted undo (SpecCmd). *)

IsCmd ==
    last.op \in {"save", "switch", "push", "pull", "stash", "sync",
                 "undo_target"}

\* The git commands that make the change a record stands for.
ChangesOf(r) ==
    LET d == r.details IN
    CASE r.action_type = "save" -> { <<"commit", "-m", d.message>> }
      [] r.action_type = "switch" ->
            IF "to_commit" \in DOMAIN d
            THEN { <<"checkout", d.to_commit>> }
            ELSE { <<"switch", d.to_branch>> }
      [] r.action_type = "create_branch" ->
            { <<"switch", "-c", d.new_branch>> }
      [] r.action_type = "push" ->
            { IF d.force THEN <<"push", "--force">> ELSE <<"push">> }
      [] r.action_type = "pull" ->
            { IF d.rebase THEN <<"pull", "--rebase">> ELSE <<"pull">> }
      [] r.action_type = "stash" ->
            { IF d.message # "" THEN <<"stash", "push", "-m", d.message>>
              ELSE <<"stash", "push">> }
      [] r.action_type = "sync" -> { <<"pull", "--rebase">> }
      [] r.action_type = "revert" ->
            { <<"revert", "--no-edit", d.commit>> }
      [] r.action_type = "delete_branch" ->
            IF d.type = "local"
            THEN { <<"branch", "-d", d.branch>>, <<"branch", "-D", d.branch>> }
            ELSE { <<"push", "origin", "--delete", d.branch>> }
      [] OTHER -> {}

\* The records the command appended.
Appended == SubSeq(history, Len(last.pre) + 1, Len(history))

Succeeded == { last.cmds[j].cmd : j \in { k \in 1..Len(last.cmds) :
                                             last.cmds[k].ok } }

\* C11 as stated: whenever a git step of the command fails, no record for
\* the command is appended.
C11_NoRecordAfterAFailedStep ==
    (IsCmd /\ \E j \in 1..Len(last.cmds) : ~last.cmds[j].ok) =>
        history = last.pre

\* C11 amended: a record is appended only after the git step that makes the
\* change it stands for succeeded (commit; switch, switch -c, checkout; push;
\* pull; stash push; the pull --rebase of sync; revert; branch -d or -D;
\* push --delete), and the log is otherwise left as it was.
C11_RecordOnlyAfterItsChange ==
    IsCmd =>
        /\ Len(history) >= Len(last.pre)
        /\ SubSeq(history, 1, Len(last.pre)) = last.pre
        /\ \A i \in 1..Len(Appended) :
              ChangesOf(Appended[i]) \cap Succeeded # {}

\* A sync whose push failed after its pull succeeded, and was recorded.
C11_Witness ==
    /\ last.op = "sync"
    /\ Len(last.cmds) = 2
    /\ last.cmds[1].ok
    /\ ~last.cmds[2].ok
    /\ Len(Appended) = 1
    /\ Appended[1].action_type = "sync"

IsResolved == last.op \in {"switch", "undo_target"}

\* The name is one of the branches `git branch -a` listed for the resolver.
IsListedBranch ==
    /\ last.listed
    /\ last.target \in last.repo.local \cup last.repo.remote

C17_ShortNeverCommit ==
    (IsResolved /\ Len(Chars(last.target)) < 4) =>
        last.target_type # "commit"

\* "abc" is all hex, names no branch here and git resolves it.
C17_Witness ==
    /\ last.op = "undo_target"
    /\ last.target = "abc"
    /\ last.listed
    /\ "abc" \notin last.repo.local \cup last.repo.remote
    /\ last.resolves
    /\ last.target_type = "unknown"

\* The git commands of a targeted undo that change the repository.
IsMutating(cmd) ==
    \/ cmd[1] \in {"reset", "revert", "rebase", "push"}
    \/ cmd[1] = "branch" /\ Len(cmd) > 1 /\ cmd[2] \in {"-d", "-D"}

Issued(first) ==
    { j \in 1..Len(last.cmds) : last.cmds[j].cmd[1] = first }

\* The targeted undo reached the HEAD check with a hash that names HEAD.
IsUndoOfHead ==
    /\ last.op = "undo_target"
    /\ last.target_type = "commit"
    /\ Issued("log") # {} /\ \A j \in Issued("log") : last.cmds[j].ok
    /\ Issued("rev-parse") # {}
    /\ \A j \in Issued("rev-parse") :
          last.cmds[j].cmd = <<"rev-parse", "HEAD">> => last.cmds[j].ok
    /\ HeadMatches(last.target, last.repo)

\* C18: targeted undo of a hash that names HEAD performs, after a
\* default-yes confirmation, exactly one soft reset and never a revert or a
\* rebase; when the confirmation is declined it issues no mutating command.
C18_HeadIsSoftResetOnly ==
    IsUndoOfHead =>
        /\ last.asked # <<>> /\ last.asked[1].tier = "medium"
        /\ Issued("revert") = {} /\ Issued("rebase") = {}
        /\ last.asked[1].passed =>
              /\ Cardinality(Issued("reset")) = 1
              /\ \A j \in Issued("reset") :
                    last.cmds[j].cmd = <<"reset", "--soft", "HEAD~1">>
        /\ ~last.asked[1].passed =>
              \A j \in 1..Len(last.cmds) : ~IsMutating(last.cmds[j].cmd)

IsUndoOfBranch == last.op = "undo_target" /\ last.target_type = "branch"

DeleteCommands ==
    { j \in 1..Len(last.cmds) :
          \/ last.cmds[j].cmd[1] = "push"
          \/ /\ last.cmds[j].cmd[1] = "branch"
             /\ Len(last.cmds[j].cmd) > 1
             /\ last.cmds[j].cmd[2] \in {"-d", "-D"} }

\* C19: targeted undo of a protected branch that is not checked out asks
\* for an extreme confirmation first; unless the text typed equals the
\* branch name, no branch-delete or push command is issued and no record is
\* logged.
C19_ProtectedBranchIsGated ==
    (/\ IsUndoOfBranch
     /\ last.target \in {"main", "master", "develop"}
     /\ last.target # last.repo.current) =>
        /\ last.asked # <<>>
        /\ last.asked[1].tier = "extreme"
        /\ last.asked[1].typed # last.target =>
              /\ DeleteCommands = {}
              /\ history = last.pre

\* "main" is named while "feature" is checked out, and the prompt is
\* answered with another branch's name.
C19_Witness ==
    /\ IsUndoOfBranch
    /\ last.target = "main"
    /\ last.repo.current = "feature"
    /\ last.asked # <<>>
    /\ last.asked[1].tier = "extreme"
    /\ last.asked[1].typed = "feature"
    /\ DeleteCommands = {}

LocalDeleteSucceeded ==
    \E j \in 1..Len(last.cmds) :
        /\ last.cmds[j].ok
        /\ last.cmds[j].cmd[1] = "branch"
        /\ Len(last.cmds[j].cmd) > 1
        /\ last.cmds[j].cmd[2] \in {"-d", "-D"}

\* C25: in a targeted undo of a branch, `git push origin --delete` is issued
\* and a remote delete_branch record is logged only when the local branch
\* was deleted in the same run.
C25_RemoteDeleteOnlyAfterLocalDelete ==
    (IsUndoOfBranch /\ ~LocalDeleteSucceeded) =>
        /\ Issued("push") = {}
        /\ \A i \in 1..Len(Appended) :
              ~(/\ Appended[i].action_type = "delete_branch"
                /\ Appended[i].details.type = "remote")

\* Only the commands of the resolver were issued.
OnlyProbed ==
    \A j \in 1..Len(last.cmds) :
        \/ last.cmds[j].cmd = <<"branch", "-a">>
        \/ last.cmds[j].cmd = <<"rev-parse", last.target>>

\* C26: the resolver of the targeted undo answers commit only for a
\* hex-shaped name of length >= 4 that `git rev-parse` resolved, and a
\* hex-shaped name that is no branch and does not resolve is unknown, after
\* which the undo issues no further command, asks nothing and logs nothing;
\* the resolver of switch answers commit for every hex-shaped name of
\* length >= 4 that is neither a branch nor an account, and issues no
\* rev-parse.
C26_UndoProbesSwitchDoesNot ==
    /\ last.op = "undo_target" =>
          /\ last.target_type = "commit" =>
                /\ LooksLikeCommit(last.target)
                /\ \E j \in 1..Len(last.cmds) :
                      /\ last.cmds[j].cmd = <<"rev-parse", last.target>>
                      /\ last.cmds[j].ok
          /\ (last.target_type # "branch" /\ ~last.resolves) =>
                last.target_type = "unknown"
          /\ last.target_type = "unknown" =>
                /\ OnlyProbed
                /\ last.asked = <<>>
                /\ history = last.pre
    /\ last.op = "switch" =>
          /\ (LooksLikeCommit(last.target)
                 /\ last.target_type \notin {"branch", "account"}) =>
                last.target_type = "commit"
          /\ Issued("rev-parse") = {}

\* A hex-shaped name that does not resolve is given to the targeted undo.
C26_Witness ==
    /\ last.op = "undo_target"
    /\ last.target = "a1b2c3d4"
    /\ ~last.resolves
    /\ last.target_type = "unknown"
    /\ Len(last.cmds) = 2
    /\ ~last.cmds[2].ok

----------------------------------------------------------------------------
(* Claims about the targeted undo on a log with records (SpecTarget). *)

SoftResetDone ==
    \E j \in 1..Len(last.cmds) :
        /\ last.cmds[j].ok
        /\ last.cmds[j].cmd = <<"reset", "--soft", "HEAD~1">>

----------------------------------------------------------------------------
(* Claims about a switch followed by its undo (SpecRound). *)

\* A confirmed `bit undo` right after a `bit switch` that left a named
\* branch for an existing branch or commit and logged it.
IsRoundTrip ==
    /\ last.op = "single_undo"
    /\ "prev" \in DOMAIN last
    /\ last.prev.repo.current # ""
    /\ last.prev.logs # <<>>
    /\ last.prev.logs[1].action_type = "switch"
    /\ last.confirm # <<>>
    /\ last.confirm[1].result

====
